---- MODULE Spec2Model ----
(***************************************************************************)
(* Model of the dimension classification and parsing engine                *)
(* (src/10-classify-dimensions.py): the text normalizer, the lexicon       *)
(* tables, the six per-kind parsers, the dimension-kind detector, the      *)
(* dispatch loop of main() with its memo table and per-dataset             *)
(* accumulators, and the profile aggregation.                              *)
(*                                                                         *)
(* Conventions.                                                            *)
(*  - A label is a string; its characters are the one-character strings    *)
(*    SubSeq(s, i, i).  Strings of the module are ASCII only, so the few    *)
(*    non-ASCII letters the labels need are written with one-character     *)
(*    stand-ins:  "{" a-breve, "}" a-circumflex, "[" i-circumflex,         *)
(*    "]" s-comma, "|" t-comma, "^" capital S-comma, "~" capital A-breve,  *)
(*    "@" a non-ASCII character without an ASCII decomposition.            *)
(*  - A Python value that may be None is None == <<>> or Some(v) == <<v>>. *)
(*    A dict without a key and a dict holding None under the key are the   *)
(*    same thing to every reader of the parsed records (they all use       *)
(*    .get), so both are None here.                                        *)
(*  - Python integers are unbounded; an integer above 2^31-1 is the value  *)
(*    Big(ds) == <<ds, "big">> that keeps its decimal digits.              *)
(*  - parse_confidence is held in hundredths: 100 is 1.0, 90 is 0.9, ...   *)
(***************************************************************************)
EXTENDS Integers, Sequences, FiniteSets, TLC

None == <<>>
Some(v) == <<v>>
Big(ds) == <<ds, "big">>
IsBig(x) == Len(x) = 2
IsInt(x) == Len(x) = 1

\* -- Characters -------------------------------------------------------------

Chr(s, i) == SubSeq(s, i, i)

UPPER == "ABCDEFGHIJKLMNOPQRSTUVWXYZ"
LOWER == "abcdefghijklmnopqrstuvwxyz"
DIGITS == "0123456789"

\* non-ASCII letters (stand-ins): upper-case form, lower-case form
NONASCII_UPPER == "^~"
NONASCII_LOWER == "]{"
\* lower-case non-ASCII letters and the ASCII letter NFKD + ascii/ignore leaves
DIACRITIC == "{}[]|"
DIACRITIC_BASE == "aaist"
\* non-ASCII character that NFKD + ascii/ignore drops
DROPPED == "@"

CharsOf(s) == {Chr(s, i) : i \in 1..Len(s)}
IndexIn(c, alphabet) ==
    IF \E i \in 1..Len(alphabet) : Chr(alphabet, i) = c
    THEN CHOOSE i \in 1..Len(alphabet) : Chr(alphabet, i) = c
    ELSE 0

IsDigit(c) == IndexIn(c, DIGITS) > 0
IsSpace(c) == c = " "
IsAlpha(c) == \/ IndexIn(c, LOWER) > 0 \/ IndexIn(c, UPPER) > 0
              \/ IndexIn(c, DIACRITIC) > 0 \/ IndexIn(c, NONASCII_UPPER) > 0
\* \w of the re module on str patterns: letters, digits, underscore
IsWord(c) == IsAlpha(c) \/ IsDigit(c) \/ c = "_"

\* -- Normalization helpers --------------------------------------------------

RECURSIVE LStrip(_)
LStrip(s) == IF Len(s) > 0 /\ IsSpace(Head(s)) THEN LStrip(Tail(s)) ELSE s

RECURSIVE RStrip(_)
RStrip(s) == IF Len(s) > 0 /\ IsSpace(Chr(s, Len(s)))
             THEN RStrip(SubSeq(s, 1, Len(s) - 1)) ELSE s

\* str.strip()
Strip(s) == RStrip(LStrip(s))

LowerChar(c) ==
    IF IndexIn(c, UPPER) > 0 THEN Chr(LOWER, IndexIn(c, UPPER))
    ELSE IF IndexIn(c, NONASCII_UPPER) > 0 THEN Chr(NONASCII_LOWER, IndexIn(c, NONASCII_UPPER))
    ELSE c

RECURSIVE Lower(_)
Lower(s) == IF Len(s) = 0 THEN "" ELSE LowerChar(Head(s)) \o Lower(Tail(s))

\* one character through unicodedata.normalize(NFKD) + encode(ascii, ignore)
AsciiChar(c) ==
    IF IndexIn(c, DIACRITIC) > 0 THEN Chr(DIACRITIC_BASE, IndexIn(c, DIACRITIC))
    ELSE IF IndexIn(c, NONASCII_UPPER) > 0
         THEN Chr(UPPER, IndexIn(Chr(DIACRITIC_BASE, IndexIn(LowerChar(c), DIACRITIC)), LOWER))
    ELSE IF IndexIn(c, DROPPED) > 0 THEN ""
    ELSE c

RECURSIVE strip_diacritics(_)
strip_diacritics(s) ==
    IF Len(s) = 0 THEN "" ELSE AsciiChar(Head(s)) \o strip_diacritics(Tail(s))

norm(s) == strip_diacritics(Lower(Strip(s)))

\* -- String matching helpers (str methods and the re patterns' pieces) ------

StartsWith(s, p) == Len(s) >= Len(p) /\ SubSeq(s, 1, Len(p)) = p
MatchesAt(s, i, p) == i + Len(p) - 1 <= Len(s) /\ SubSeq(s, i, i + Len(p) - 1) = p
\* p in s
Contains(s, p) == \E i \in 1..(Len(s) - Len(p) + 1) : MatchesAt(s, i, p)
From(s, i) == SubSeq(s, i, Len(s))

\* length of the longest run of characters of a class starting at position i
RECURSIVE SpaceRun(_, _)
SpaceRun(s, i) == IF i <= Len(s) /\ IsSpace(Chr(s, i)) THEN 1 + SpaceRun(s, i + 1) ELSE 0
RECURSIVE DigitRun(_, _)
DigitRun(s, i) == IF i <= Len(s) /\ IsDigit(Chr(s, i)) THEN 1 + DigitRun(s, i + 1) ELSE 0
RECURSIVE WordRun(_, _)
WordRun(s, i) == IF i <= Len(s) /\ IsWord(Chr(s, i)) THEN 1 + WordRun(s, i + 1) ELSE 0

\* \b at position i (between character i-1 and character i)
WordBoundary(s, i) ==
    (i > 1 /\ i - 1 <= Len(s) /\ IsWord(Chr(s, i - 1))) # (i <= Len(s) /\ IsWord(Chr(s, i)))

\* str.isdigit() on ASCII text
IsDigits(s) == Len(s) > 0 /\ \A i \in 1..Len(s) : IsDigit(Chr(s, i))

RECURSIVE StripZeros(_)
StripZeros(ds) == IF Len(ds) > 1 /\ Head(ds) = "0" THEN StripZeros(Tail(ds)) ELSE ds

RECURSIVE DigitsValue(_)
DigitsValue(ds) ==
    IF Len(ds) = 0 THEN 0
    ELSE 10 * DigitsValue(SubSeq(ds, 1, Len(ds) - 1)) + (IndexIn(Chr(ds, Len(ds)), DIGITS) - 1)

INT32_MAX == 2147483647
INT32_MAX_DIGITS == "2147483647"

RECURSIVE DigitsLeq(_, _)
\* a <= b for two digit strings of the same length
DigitsLeq(a, b) ==
    IF Len(a) = 0 THEN TRUE
    ELSE IF Head(a) = Head(b) THEN DigitsLeq(Tail(a), Tail(b))
    ELSE IndexIn(Head(a), DIGITS) < IndexIn(Head(b), DIGITS)

\* int(ds) for a string of ASCII digits
int(ds) ==
    LET z == StripZeros(ds) IN
    IF Len(z) < Len(INT32_MAX_DIGITS) \/ (Len(z) = Len(INT32_MAX_DIGITS) /\ DigitsLeq(z, INT32_MAX_DIGITS))
    THEN Some(DigitsValue(z))
    ELSE Big(z)

\* bool(x) of an optional integer: None and 0 are false
Truthy(x) == x # None /\ x # Some(0)

\* dict.get(key): Some(value) or None
DictGet(d, k) == IF k \in DOMAIN d THEN Some(d[k]) ELSE None
\* a or b, on optional integers
Or(a, b) == IF Truthy(a) THEN a ELSE b

IncDigits(ds) ==
    LET RECURSIVE inc(_)
        inc(d) == IF Len(d) = 0 THEN "1"
                  ELSE IF Chr(d, Len(d)) = "9" THEN inc(SubSeq(d, 1, Len(d) - 1)) \o "0"
                  ELSE SubSeq(d, 1, Len(d) - 1) \o Chr(DIGITS, IndexIn(Chr(d, Len(d)), DIGITS) + 1)
    IN inc(ds)
DecDigits(ds) ==
    LET RECURSIVE dec(_)
        dec(d) == IF Chr(d, Len(d)) = "0" THEN dec(SubSeq(d, 1, Len(d) - 1)) \o "9"
                  ELSE SubSeq(d, 1, Len(d) - 1) \o Chr(DIGITS, IndexIn(Chr(d, Len(d)), DIGITS) - 1)
    IN StripZeros(dec(ds))
\* n + 1 and n - 1 on Python integers
PyAdd1(n) == IF IsInt(n)
             THEN IF n[1] < INT32_MAX THEN Some(n[1] + 1) ELSE Big(IncDigits(INT32_MAX_DIGITS))
             ELSE Big(IncDigits(n[1]))
PySub1(n) == IF IsInt(n) THEN Some(n[1] - 1) ELSE int(DecDigits(n[1]))

\* position of the leftmost match of a pattern tried at every position
\* (re.search), 0 when there is none
FirstIndex(s, P(_)) ==
    IF \E i \in 1..Len(s) : P(i)
    THEN CHOOSE i \in 1..Len(s) : P(i) /\ \A j \in 1..(i - 1) : ~P(j)
    ELSE 0

\* -- County set --------------------------------------------------------------

COUNTIES_NORM == {
    "alba", "arad", "arges", "bacau", "bihor", "bistrita-nasaud",
    "botosani", "brasov", "braila", "buzau", "caras-severin",
    "calarasi", "cluj", "constanta", "covasna", "dambovita",
    "dolj", "galati", "giurgiu", "gorj", "harghita", "hunedoara",
    "ialomita", "iasi", "ilfov", "maramures", "mehedinti",
    "mures", "neamt", "olt", "prahova", "satu mare", "salaj",
    "sibiu", "suceava", "teleorman", "timis", "tulcea",
    "vaslui", "valcea", "vrancea", "bucuresti",
    "bistrita nasaud", "caras severin" }

\* -- Roman numerals ----------------------------------------------------------

ROMAN == ("i" :> 1) @@ ("ii" :> 2) @@ ("iii" :> 3) @@ ("iv" :> 4)

\* -- Romanian month names ----------------------------------------------------

RO_MONTHS ==
    ("ianuarie" :> 1) @@ ("ian" :> 1) @@
    ("februarie" :> 2) @@ ("feb" :> 2) @@
    ("martie" :> 3) @@ ("mar" :> 3) @@
    ("aprilie" :> 4) @@ ("apr" :> 4) @@
    ("mai" :> 5) @@
    ("iunie" :> 6) @@ ("iun" :> 6) @@
    ("iulie" :> 7) @@ ("iul" :> 7) @@
    ("august" :> 8) @@ ("aug" :> 8) @@
    ("septembrie" :> 9) @@ ("sep" :> 9) @@ ("sept" :> 9) @@
    ("octombrie" :> 10) @@ ("oct" :> 10) @@
    ("noiembrie" :> 11) @@ ("nov" :> 11) @@
    ("decembrie" :> 12) @@ ("dec" :> 12)

\* -- Unit of measure lookup: <<unit_type, unit_scale, currency>> -------------

UNIT_MAP ==
    ("procente" :> <<"percentage", 1, None>>) @@
    ("%" :> <<"percentage", 1, None>>) @@
    ("procente puncte" :> <<"percentage", 1, None>>) @@
    ("puncte procentuale" :> <<"percentage", 1, None>>) @@
    ("pp" :> <<"percentage", 1, None>>) @@
    ("numar" :> <<"count", 1, None>>) @@
    ("nr." :> <<"count", 1, None>>) @@
    ("nr" :> <<"count", 1, None>>) @@
    ("numar de cazuri" :> <<"count", 1, None>>) @@
    ("numar de persoane" :> <<"count", 1, None>>) @@
    ("persoane" :> <<"count", 1, None>>) @@
    ("mii persoane" :> <<"count", 1000, None>>) @@
    ("mii" :> <<"count", 1000, None>>) @@
    ("milioane" :> <<"count", 1000000, None>>) @@
    ("lei" :> <<"currency", 1, Some("RON")>>) @@
    ("mii lei" :> <<"currency", 1000, Some("RON")>>) @@
    ("mil. lei" :> <<"currency", 1000000, Some("RON")>>) @@
    ("milioane lei" :> <<"currency", 1000000, Some("RON")>>) @@
    ("miliarde lei" :> <<"currency", 1000000000, Some("RON")>>) @@
    ("euro" :> <<"currency", 1, Some("EUR")>>) @@
    ("mii euro" :> <<"currency", 1000, Some("EUR")>>) @@
    ("milioane euro" :> <<"currency", 1000000, Some("EUR")>>) @@
    ("dolari sua" :> <<"currency", 1, Some("USD")>>) @@
    ("mii dolari sua" :> <<"currency", 1000, Some("USD")>>) @@
    ("dts" :> <<"currency", 1, Some("SDR")>>) @@
    ("hectare" :> <<"area", 1, None>>) @@
    ("ha" :> <<"area", 1, None>>) @@
    ("mii ha" :> <<"area", 1000, None>>) @@
    ("km2" :> <<"area", 1, None>>) @@
    ("km patrati" :> <<"area", 1, None>>) @@
    ("tone" :> <<"weight", 1, None>>) @@
    ("mii tone" :> <<"weight", 1000, None>>) @@
    ("milioane tone" :> <<"weight", 1000000, None>>) @@
    ("tone co2 echivalent" :> <<"weight", 1, None>>) @@
    ("mii tep" :> <<"energy", 1000, None>>) @@
    ("kwh" :> <<"energy", 1, None>>) @@
    ("mii kwh" :> <<"energy", 1000, None>>) @@
    ("mwh" :> <<"energy", 1000, None>>) @@
    ("gwh" :> <<"energy", 1000000, None>>) @@
    ("indice" :> <<"index", 1, None>>) @@
    ("indici" :> <<"index", 1, None>>) @@
    ("indici de pret" :> <<"index", 1, None>>) @@
    ("rata" :> <<"rate", 1, None>>) @@
    ("promile" :> <<"rate", 1, None>>) @@
    ("km" :> <<"distance", 1, None>>) @@
    ("zile" :> <<"time_unit", 1, None>>) @@
    ("ore" :> <<"time_unit", 1, None>>) @@
    ("numar mediu" :> <<"count", 1, None>>) @@
    ("locuri" :> <<"count", 1, None>>) @@
    ("locuri de munca" :> <<"count", 1, None>>) @@
    ("unitati" :> <<"count", 1, None>>) @@
    ("mii unitati" :> <<"count", 1000, None>>)

\* -- Parsers -----------------------------------------------------------------

\* the keys a parsed dict may hold besides dim_type and parse_confidence
NO_FIELDS ==
    [year |-> None, quarter |-> None, month |-> None, semester |-> None,
     time_granularity |-> None,
     geo_level |-> None, siruta_code |-> None, geo_name_clean |-> None,
     gender |-> None,
     age_min |-> None, age_max |-> None,
     unit_type |-> None, unit_scale |-> None, currency |-> None]

\* variant: every dict starts with the unit scale 1
Dict_scaled(kind, conf) ==
    [dim_type |-> kind, parse_confidence |-> conf] @@ [NO_FIELDS EXCEPT !.unit_scale = Some(1)]

\* {'dim_type': kind, 'parse_confidence': conf}
Dict(kind, conf) == [dim_type |-> kind, parse_confidence |-> conf] @@ NO_FIELDS

NonSpaceRun(s, i) ==
    LET RECURSIVE run(_)
        run(j) == IF j <= Len(s) /\ ~IsSpace(Chr(s, j)) THEN 1 + run(j + 1) ELSE 0
    IN run(i)

\* re.match(kw \s+ (token) \s+ (\d{4})) for a token pattern without white
\* space: <<token, year digits>> of the only candidate match, or None
KeywordTokenYear(sn, kw) ==
    LET p    == Len(kw) + 1
        sp1  == SpaceRun(sn, p)
        t    == p + sp1
        tl   == NonSpaceRun(sn, t)
        sp2  == SpaceRun(sn, t + tl)
        y    == t + tl + sp2
    IN IF StartsWith(sn, kw) /\ sp1 >= 1 /\ tl >= 1 /\ sp2 >= 1 /\ DigitRun(sn, y) >= 4
       THEN <<SubSeq(sn, t, t + tl - 1), SubSeq(sn, y, y + 3)>>
       ELSE None

\* i{1,3}v?|iv|[1-4]
QUARTER_TOKENS == {"i", "ii", "iii", "iv", "iiv", "iiiv", "1", "2", "3", "4"}
\* i{1,2}|[12]
SEMESTER_TOKENS == {"i", "ii", "1", "2"}
IsWordToken(t) == \A i \in 1..Len(t) : IsWord(Chr(t, i))

parse_time(label) ==
    LET sn == norm(label)
        \* anul\s+(\d{4})
        sp == SpaceRun(sn, 5)
        m1 == StartsWith(sn, "anul") /\ sp >= 1 /\ DigitRun(sn, 5 + sp) >= 4
        m2 == KeywordTokenYear(sn, "trimestrul")
        q  == IF m2 # None /\ m2[1] \in QUARTER_TOKENS
              THEN Or(DictGet(ROMAN, m2[1]), IF IsDigits(m2[1]) THEN int(m2[1]) ELSE None)
              ELSE None
        m3 == KeywordTokenYear(sn, "semestrul")
        sem == IF m3 # None /\ m3[1] \in SEMESTER_TOKENS
               THEN Or(DictGet(ROMAN, m3[1]), IF IsDigits(m3[1]) THEN int(m3[1]) ELSE None)
               ELSE None
        m4 == KeywordTokenYear(sn, "luna")
        month == IF m4 # None /\ IsWordToken(m4[1])
                 THEN Or(DictGet(RO_MONTHS, m4[1]), IF IsDigits(m4[1]) THEN int(m4[1]) ELSE None)
                 ELSE None
        st == Strip(sn)
        y6 == FirstIndex(sn, LAMBDA i : DigitRun(sn, i) >= 4)
    IN IF m1
       THEN [Dict("time", 100) EXCEPT !.year = int(SubSeq(sn, 5 + sp, 8 + sp)),
                                      !.time_granularity = Some("annual")]
       ELSE IF Truthy(q)
       THEN [Dict("time", 100) EXCEPT !.year = int(m2[2]), !.quarter = q,
                                      !.time_granularity = Some("quarterly")]
       ELSE IF Truthy(sem)
       THEN [Dict("time", 100) EXCEPT !.year = int(m3[2]), !.semester = sem,
                                      !.time_granularity = Some("semester")]
       ELSE IF Truthy(month)
       THEN [Dict("time", 100) EXCEPT !.year = int(m4[2]), !.month = month,
                                      !.time_granularity = Some("monthly")]
       ELSE IF Len(st) = 4 /\ IsDigits(st)
       THEN [Dict("time", 100) EXCEPT !.year = int(st), !.time_granularity = Some("annual")]
       ELSE IF y6 > 0
       THEN [Dict("time", 50) EXCEPT !.year = int(SubSeq(sn, y6, y6 + 3)),
                                     !.time_granularity = Some("other")]
       ELSE Dict("time", 10)

NATIONAL_TOTALS == {"total", "romania", "total romania", "total general",
                    "nivel national", "national", "nivel national (agregat)"}
\* the alternatives of ^(municipiul|municipiu|oras|ora<s-comma>ul)\s+\w
LOCALITY_PREFIXES == {"municipiul", "municipiu", "oras", "ora]ul"}

\* re.search(\b word \b, sn)
HasWholeWord(sn, w) ==
    \E i \in 1..Len(sn) :
        MatchesAt(sn, i, w) /\ WordBoundary(sn, i) /\ WordBoundary(sn, i + Len(w))

\* prefix \s+ \w matched at position i
PrefixThenWord(sn, i, prefix) ==
    LET sp == SpaceRun(sn, i + Len(prefix))
        j  == i + Len(prefix) + sp
    IN MatchesAt(sn, i, prefix) /\ sp >= 1 /\ j <= Len(sn) /\ IsWord(Chr(sn, j))

parse_geo(label) ==
    LET s  == Strip(label)
        sn == norm(s)
        \* ^(\d{4,6})\s+(.+) on the raw label
        d  == DigitRun(s, 1)
        sp == SpaceRun(s, d + 1)
        siruta == d >= 4 /\ d <= 6 /\ sp >= 1 /\ d + sp < Len(s)
    IN IF sn \in NATIONAL_TOTALS
       THEN [Dict("geo", 100) EXCEPT !.geo_level = Some("national"), !.geo_name_clean = Some("Total")]
       ELSE IF Contains(sn, "macroregiunea")
       THEN [Dict("geo", 100) EXCEPT !.geo_level = Some("macroregion"), !.geo_name_clean = Some(s)]
       ELSE IF StartsWith(sn, "regiunea")
               \/ \E i \in 1..Len(sn) : WordBoundary(sn, i) /\ PrefixThenWord(sn, i, "regiunea")
       THEN [Dict("geo", 100) EXCEPT !.geo_level = Some("region"), !.geo_name_clean = Some(s)]
       ELSE IF Contains(sn, "bucuresti")
       THEN [Dict("geo", 100) EXCEPT !.geo_level = Some("county"),
                                     !.geo_name_clean = Some("Municipiul Bucure]ti")]
       ELSE IF \E pre \in LOCALITY_PREFIXES : PrefixThenWord(sn, 1, pre)
       THEN [Dict("geo", 90) EXCEPT !.geo_level = Some("locality"), !.geo_name_clean = Some(s)]
       ELSE IF sn \in COUNTIES_NORM
       THEN [Dict("geo", 100) EXCEPT !.geo_level = Some("county"), !.geo_name_clean = Some(s)]
       ELSE IF siruta
       THEN [Dict("geo", 100) EXCEPT !.geo_level = Some("locality"),
                                     !.siruta_code = int(SubSeq(s, 1, d)),
                                     !.geo_name_clean = Some(Strip(From(s, d + sp + 1)))]
       ELSE IF HasWholeWord(sn, "urban")
       THEN [Dict("geo", 100) EXCEPT !.geo_level = Some("residence"), !.geo_name_clean = Some("urban")]
       ELSE IF HasWholeWord(sn, "rural")
       THEN [Dict("geo", 100) EXCEPT !.geo_level = Some("residence"), !.geo_name_clean = Some("rural")]
       ELSE [Dict("geo", 20) EXCEPT !.geo_level = Some("unknown"), !.geo_name_clean = Some(s)]

MALE_WORDS == {"masculin", "barbati", "barbat", "baieti", "baiat", "de sex masculin"}
FEMALE_WORDS == {"feminin", "femei", "femeie", "fete", "fata", "de sex feminin"}

\* variant: the female indicators are tried before the male ones
parse_gender_female_first(label) ==
    LET sn == norm(label) IN
    IF \E w \in FEMALE_WORDS : Contains(sn, w)
    THEN [Dict("gender", 100) EXCEPT !.gender = Some("female")]
    ELSE IF \E w \in MALE_WORDS : Contains(sn, w)
    THEN [Dict("gender", 100) EXCEPT !.gender = Some("male")]
    ELSE IF Contains(sn, "necunoscut")
    THEN [Dict("gender", 100) EXCEPT !.gender = Some("unknown")]
    ELSE IF Strip(sn) \in {"total", "ambele sexe"}
    THEN [Dict("gender", 100) EXCEPT !.gender = Some("total")]
    ELSE [Dict("gender", 50) EXCEPT !.gender = Some("other")]

parse_gender(label) ==
    LET sn == norm(label) IN
    IF \E w \in MALE_WORDS : Contains(sn, w)
    THEN [Dict("gender", 100) EXCEPT !.gender = Some("male")]
    ELSE IF \E w \in FEMALE_WORDS : Contains(sn, w)
    THEN [Dict("gender", 100) EXCEPT !.gender = Some("female")]
    ELSE IF Contains(sn, "necunoscut")
    THEN [Dict("gender", 100) EXCEPT !.gender = Some("unknown")]
    ELSE IF Strip(sn) \in {"total", "ambele sexe"}
    THEN [Dict("gender", 100) EXCEPT !.gender = Some("total")]
    ELSE [Dict("gender", 50) EXCEPT !.gender = Some("other")]

\* Each age pattern tried at one position: None when it does not match
\* there, otherwise the digits of its group(s).

\* (\d+)\s*-\s*(\d+)\s*ani : <<digits X, digits Y>> or None
AgeRangeAt(sn, i) ==
    LET d1 == DigitRun(sn, i)
        a  == i + d1 + SpaceRun(sn, i + d1)
        b  == a + 1 + SpaceRun(sn, a + 1)
        d2 == DigitRun(sn, b)
        c  == b + d2 + SpaceRun(sn, b + d2)
    IN IF d1 >= 1 /\ MatchesAt(sn, a, "-") /\ d2 >= 1 /\ MatchesAt(sn, c, "ani")
       THEN <<SubSeq(sn, i, i + d1 - 1), SubSeq(sn, b, b + d2 - 1)>>
       ELSE None

\* ^\s*(\d+)\s+ani?\s*$ : Some(digits) or None
AgeSingle(sn) ==
    LET a  == 1 + SpaceRun(sn, 1)
        d  == DigitRun(sn, a)
        sp == SpaceRun(sn, a + d)
        b  == a + d + sp
        e  == IF MatchesAt(sn, b, "ani") THEN b + 3 ELSE b + 2
        tail(j) == j + SpaceRun(sn, j) = Len(sn) + 1
    IN IF d >= 1 /\ sp >= 1 /\ MatchesAt(sn, b, "an") /\ (tail(e) \/ tail(b + 2))
       THEN Some(SubSeq(sn, a, a + d - 1))
       ELSE None

\* word \s+ (\d+) \s+ an   (sub\s+(\d+)\s+ani? and peste\s+(\d+)\s+ani?)
WordAgeAt(sn, i, w) ==
    LET a  == i + Len(w) + SpaceRun(sn, i + Len(w))
        d  == DigitRun(sn, a)
        sp == SpaceRun(sn, a + d)
    IN IF MatchesAt(sn, i, w) /\ a > i + Len(w) /\ d >= 1 /\ sp >= 1
          /\ MatchesAt(sn, a + d + sp, "an")
       THEN Some(SubSeq(sn, a, a + d - 1))
       ELSE None

\* (peste|mai\s+mult) at position j
OverAt(sn, j) ==
    \/ MatchesAt(sn, j, "peste")
    \/ MatchesAt(sn, j, "mai") /\ SpaceRun(sn, j + 3) >= 1
       /\ MatchesAt(sn, j + 3 + SpaceRun(sn, j + 3), "mult")

\* \s*(si\s+)?(peste|mai\s+mult) at position j
AndOverAt(sn, j) ==
    LET k == j + SpaceRun(sn, j)
        sp == SpaceRun(sn, k + 2)
    IN OverAt(sn, k) \/ (MatchesAt(sn, k, "si") /\ sp >= 1 /\ OverAt(sn, k + 2 + sp))

\* (\d+)\s+ani?\s*(si\s+)?(peste|mai\s+mult)
AgeAndOverAt(sn, i) ==
    LET d  == DigitRun(sn, i)
        sp == SpaceRun(sn, i + d)
        b  == i + d + sp
    IN IF d >= 1 /\ sp >= 1 /\ MatchesAt(sn, b, "an")
          /\ ((MatchesAt(sn, b, "ani") /\ AndOverAt(sn, b + 3)) \/ AndOverAt(sn, b + 2))
       THEN Some(SubSeq(sn, i, i + d - 1))
       ELSE None

\* variant: peste X ani starts at X itself
parse_age_peste_inclusive(label) ==
    LET sn == norm(label)
        i2 == FirstIndex(sn, LAMBDA i : AgeRangeAt(sn, i) # None)
        m3 == AgeSingle(sn)
        i4 == FirstIndex(sn, LAMBDA i : WordAgeAt(sn, i, "sub") # None)
        i5 == FirstIndex(sn, LAMBDA i : AgeAndOverAt(sn, i) # None)
        i6 == FirstIndex(sn, LAMBDA i : WordAgeAt(sn, i, "peste") # None)
    IN IF Strip(sn) \in {"total", "total varste", "toate varstele"}
       THEN [Dict("age", 100) EXCEPT !.age_min = Some(0), !.age_max = Some(999)]
       ELSE IF i2 > 0
       THEN [Dict("age", 100) EXCEPT !.age_min = int(AgeRangeAt(sn, i2)[1]),
                                     !.age_max = int(AgeRangeAt(sn, i2)[2])]
       ELSE IF m3 # None
       THEN [Dict("age", 100) EXCEPT !.age_min = int(m3[1]), !.age_max = int(m3[1])]
       ELSE IF i4 > 0
       THEN [Dict("age", 100) EXCEPT !.age_min = Some(0),
                                     !.age_max = PySub1(int(WordAgeAt(sn, i4, "sub")[1]))]
       ELSE IF i5 > 0
       THEN [Dict("age", 100) EXCEPT !.age_min = int(AgeAndOverAt(sn, i5)[1]), !.age_max = Some(999)]
       ELSE IF i6 > 0
       THEN [Dict("age", 100) EXCEPT !.age_min = int(WordAgeAt(sn, i6, "peste")[1]),
                                     !.age_max = Some(999)]
       ELSE Dict("age", 30)

parse_age(label) ==
    LET sn == norm(label)
        i2 == FirstIndex(sn, LAMBDA i : AgeRangeAt(sn, i) # None)
        m3 == AgeSingle(sn)
        i4 == FirstIndex(sn, LAMBDA i : WordAgeAt(sn, i, "sub") # None)
        i5 == FirstIndex(sn, LAMBDA i : AgeAndOverAt(sn, i) # None)
        i6 == FirstIndex(sn, LAMBDA i : WordAgeAt(sn, i, "peste") # None)
    IN IF Strip(sn) \in {"total", "total varste", "toate varstele"}
       THEN [Dict("age", 100) EXCEPT !.age_min = Some(0), !.age_max = Some(999)]
       ELSE IF i2 > 0
       THEN [Dict("age", 100) EXCEPT !.age_min = int(AgeRangeAt(sn, i2)[1]),
                                     !.age_max = int(AgeRangeAt(sn, i2)[2])]
       ELSE IF m3 # None
       THEN [Dict("age", 100) EXCEPT !.age_min = int(m3[1]), !.age_max = int(m3[1])]
       ELSE IF i4 > 0
       THEN [Dict("age", 100) EXCEPT !.age_min = Some(0),
                                     !.age_max = PySub1(int(WordAgeAt(sn, i4, "sub")[1]))]
       ELSE IF i5 > 0
       THEN [Dict("age", 100) EXCEPT !.age_min = int(AgeAndOverAt(sn, i5)[1]), !.age_max = Some(999)]
       ELSE IF i6 > 0
       THEN [Dict("age", 100) EXCEPT !.age_min = PyAdd1(int(WordAgeAt(sn, i6, "peste")[1])),
                                     !.age_max = Some(999)]
       ELSE Dict("age", 30)

\* variant: the pass-through of an unrecognized label counts as an exact parse
parse_residence_sure(label) ==
    LET sn == norm(label) IN
    IF Contains(sn, "urban")
    THEN [Dict("residence", 100) EXCEPT !.geo_level = Some("residence"), !.geo_name_clean = Some("urban")]
    ELSE IF Contains(sn, "rural")
    THEN [Dict("residence", 100) EXCEPT !.geo_level = Some("residence"), !.geo_name_clean = Some("rural")]
    ELSE [Dict("residence", 100) EXCEPT !.geo_level = Some("residence"), !.geo_name_clean = Some(Strip(sn))]

parse_residence(label) ==
    LET sn == norm(label) IN
    IF Contains(sn, "urban")
    THEN [Dict("residence", 100) EXCEPT !.geo_level = Some("residence"), !.geo_name_clean = Some("urban")]
    ELSE IF Contains(sn, "rural")
    THEN [Dict("residence", 100) EXCEPT !.geo_level = Some("residence"), !.geo_name_clean = Some("rural")]
    ELSE IF Strip(sn) = "total"
    THEN [Dict("residence", 100) EXCEPT !.geo_level = Some("residence"), !.geo_name_clean = Some("total")]
    ELSE [Dict("residence", 70) EXCEPT !.geo_level = Some("residence"), !.geo_name_clean = Some(Strip(sn))]

\* variant: the label is looked up as it stands
parse_unit_as_written(label) ==
    LET sn == norm(label)
        hit(key) == [Dict("unit", 100) EXCEPT !.unit_type = Some(UNIT_MAP[key][1]),
                                              !.unit_scale = Some(UNIT_MAP[key][2]),
                                              !.currency = UNIT_MAP[key][3]]
    IN IF sn \in DOMAIN UNIT_MAP THEN hit(sn)
       ELSE [Dict("unit", 10) EXCEPT !.unit_type = Some("other"), !.unit_scale = Some(1)]

parse_unit(label) ==
    LET sn == norm(label)
        \* re.sub(^um:\s*, '', sn).strip()
        sn_clean == IF StartsWith(sn, "um:") THEN Strip(From(sn, 4 + SpaceRun(sn, 4))) ELSE Strip(sn)
        hit(key) == [Dict("unit", 100) EXCEPT !.unit_type = Some(UNIT_MAP[key][1]),
                                              !.unit_scale = Some(UNIT_MAP[key][2]),
                                              !.currency = UNIT_MAP[key][3]]
    IN IF sn_clean \in DOMAIN UNIT_MAP THEN hit(sn_clean)
       ELSE IF sn \in DOMAIN UNIT_MAP THEN hit(sn)
       ELSE [Dict("unit", 10) EXCEPT !.unit_type = Some("other"), !.unit_scale = Some(1)]

\* -- Dimension type detection (from dim_label) -------------------------------

TIME_KEYWORDS == {"perioade", "trimestre", "trimestru", "semestre", "semestru",
                  "saptamani", "luni calendaristice"}
TIME_NAMES == {"ani", "perioade", "luni", "trimestre", "semestre", "perioade de referinta"}
AGE_KEYWORDS == {"varsta", "varste", "grupe de varsta", "grupe varsta", "clase de varsta"}
GEO_KEYWORDS == {"macroregiuni", "regiuni", "judete", "judet", "localitati", "localitate",
                 "municipii", "orase", "comune", "sate", "teritorii", "zone geografice",
                 "tari", "tara", "continente", "filiale"}

\* variant: the geo keywords are tried before the gender, age and residence
\* rules
detect_dim_type_geo_early(dim_label) ==
    LET sn == norm(dim_label) IN
    IF StartsWith(sn, "um:") \/ StartsWith(sn, "um ") \/ sn = "um" THEN "unit"
    ELSE IF \E k \in TIME_KEYWORDS : Contains(sn, k) THEN "time"
    ELSE IF sn \in TIME_NAMES THEN "time"
    ELSE IF HasWholeWord(sn, "ani") /\ ~Contains(sn, "grupe de varsta") /\ ~Contains(sn, "varst")
    THEN "time"
    ELSE IF \E k \in GEO_KEYWORDS : Contains(sn, k) THEN "geo"
    ELSE IF HasWholeWord(sn, "sexe") /\ ~Contains(sn, "rezidenta") THEN "gender"
    ELSE IF sn = "sex" THEN "gender"
    ELSE IF \E k \in AGE_KEYWORDS : Contains(sn, k) THEN "age"
    ELSE IF Contains(sn, "rezidenta") \/ Contains(sn, "grad de urbanizare")
            \/ Contains(sn, "medii de rezident")
    THEN "residence"
    ELSE "indicator"

\* variant: the word ani makes a name a time dimension whatever else it holds
detect_dim_type_ani_always(dim_label) ==
    LET sn == norm(dim_label) IN
    IF StartsWith(sn, "um:") \/ StartsWith(sn, "um ") \/ sn = "um" THEN "unit"
    ELSE IF \E k \in TIME_KEYWORDS : Contains(sn, k) THEN "time"
    ELSE IF sn \in TIME_NAMES THEN "time"
    ELSE IF HasWholeWord(sn, "ani") THEN "time"
    ELSE IF HasWholeWord(sn, "sexe") /\ ~Contains(sn, "rezidenta") THEN "gender"
    ELSE IF sn = "sex" THEN "gender"
    ELSE IF \E k \in AGE_KEYWORDS : Contains(sn, k) THEN "age"
    ELSE IF Contains(sn, "rezidenta") \/ Contains(sn, "grad de urbanizare")
            \/ Contains(sn, "medii de rezident")
    THEN "residence"
    ELSE IF \E k \in GEO_KEYWORDS : Contains(sn, k) THEN "geo"
    ELSE "indicator"

detect_dim_type(dim_label) ==
    LET sn == norm(dim_label) IN
    IF StartsWith(sn, "um:") \/ StartsWith(sn, "um ") \/ sn = "um" THEN "unit"
    ELSE IF \E k \in TIME_KEYWORDS : Contains(sn, k) THEN "time"
    ELSE IF sn \in TIME_NAMES THEN "time"
    ELSE IF HasWholeWord(sn, "ani") /\ ~Contains(sn, "grupe de varsta") /\ ~Contains(sn, "varst")
    THEN "time"
    ELSE IF HasWholeWord(sn, "sexe") /\ ~Contains(sn, "rezidenta") THEN "gender"
    ELSE IF sn = "sex" THEN "gender"
    ELSE IF \E k \in AGE_KEYWORDS : Contains(sn, k) THEN "age"
    ELSE IF Contains(sn, "rezidenta") \/ Contains(sn, "grad de urbanizare")
            \/ Contains(sn, "medii de rezident")
    THEN "residence"
    ELSE IF \E k \in GEO_KEYWORDS : Contains(sn, k) THEN "geo"
    ELSE "indicator"

\* -- Apply appropriate parser ------------------------------------------------

\* the keys of PARSERS
PARSERS == {"time", "geo", "gender", "age", "residence", "unit"}

\* variant: no special case for the indicator kind
parse_option_no_indicator(dim_type, option_label) ==
    LET label == Strip(IF option_label = None \/ option_label = Some("") THEN "" ELSE option_label[1]) IN
    IF dim_type \notin PARSERS THEN Dict("other", 0)
    ELSE IF dim_type = "time" THEN parse_time(label)
    ELSE IF dim_type = "geo" THEN parse_geo(label)
    ELSE IF dim_type = "gender" THEN parse_gender(label)
    ELSE IF dim_type = "age" THEN parse_age(label)
    ELSE IF dim_type = "residence" THEN parse_residence(label)
    ELSE parse_unit(label)

\* option_label is Some(text) or None; (option_label or '').strip()
parse_option(dim_type, option_label) ==
    LET label == Strip(IF option_label = None \/ option_label = Some("") THEN "" ELSE option_label[1]) IN
    IF dim_type = "indicator" THEN Dict("indicator", 100)
    ELSE IF dim_type \notin PARSERS THEN Dict("other", 0)
    ELSE IF dim_type = "time" THEN parse_time(label)
    ELSE IF dim_type = "geo" THEN parse_geo(label)
    ELSE IF dim_type = "gender" THEN parse_gender(label)
    ELSE IF dim_type = "age" THEN parse_age(label)
    ELSE IF dim_type = "residence" THEN parse_residence(label)
    ELSE parse_unit(label)

\* -- Archetype assignment ----------------------------------------------------

\* variant: the demographic rule is tried before the geo_time rule
assign_archetype_demographic_first(has_time, has_geo, has_gender, has_age, has_residence) ==
    IF has_time /\ (has_gender \/ has_age) THEN "demographic"
    ELSE IF has_time /\ has_geo THEN "geo_time"
    ELSE IF has_time /\ has_residence THEN "time_residence"
    ELSE IF has_time THEN "time_series"
    ELSE IF has_geo THEN "geo_only"
    ELSE "categorical"

assign_archetype(has_time, has_geo, has_gender, has_age, has_residence) ==
    IF has_time /\ has_geo THEN "geo_time"
    ELSE IF has_time /\ (has_gender \/ has_age) THEN "demographic"
    ELSE IF has_time /\ has_residence THEN "time_residence"
    ELSE IF has_time THEN "time_series"
    ELSE IF has_geo THEN "geo_only"
    ELSE "categorical"

\* -- Input corpus --------------------------------------------------------------

\* matrix codes in their ORDER BY order
MATRICES == <<"M1", "M2">>
DIM_CODES == {1, 2}
\* bound: nom_item_id values are 1..NumIds
NumIds == 2
\* bound: rows of the join dimension_options x dimensions held by the database
MaxRows == 2
\* bound: runs of main() against one database
MaxRuns == 2
\* bound: rows held by the database in the specification SpecKinds
KindRows == 3

MatrixCodes == {MATRICES[k] : k \in 1..Len(MATRICES)}
MatrixIndex(m) == CHOOSE k \in 1..Len(MATRICES) : MATRICES[k] = m

\* one row of the join: the columns the query of main() selects
JoinRows(dimLabels, optionLabels) ==
    [nom_item_id : 1..NumIds, option_label : optionLabels, dim_label : dimLabels,
     matrix_code : MatrixCodes, dim_code : DIM_CODES]

\* dimensions: UNIQUE(matrix_code, dim_code); dimension_options:
\* UNIQUE(dimension_id, nom_item_id)
Compatible(S, r) ==
    \A q \in S :
        (q.matrix_code = r.matrix_code /\ q.dim_code = r.dim_code)
        => (q.dim_label = r.dim_label /\ q.nom_item_id # r.nom_item_id)

RECURSIVE Corpora(_, _)
\* every database content of at most n join rows over the given universe
Corpora(universe, n) ==
    IF n = 0 THEN {{}}
    ELSE LET smaller == Corpora(universe, n - 1)
         IN smaller \cup {S \cup {r} : <<S, r>> \in {<<S, r>> \in smaller \X universe : Compatible(S, r)}}

\* -- Main ---------------------------------------------------------------------

VARIABLES
    db,                        \* the join dimension_options x dimensions (input)
    runs,                      \* runs of main() started so far
    pc,                        \* position of the current run in main()
    matrix,                    \* args.matrix: None or Some(matrix code)
    rows,                      \* the fetched rows, in ORDER BY order
    pos,                       \* rows the dispatch loop has processed
    seen,                      \* nom_item_id -> parsed dict
    parse_calls,               \* nom_item_id -> calls of parse_option made for it
    matrix_dims,               \* <<matrix_code, dim_code>> -> dimension info
    matrix_nids,               \* matrix_code -> list of nom_item_ids
    unknown_units,             \* normalized label -> count
    unknown_geo,               \* normalized label -> count
    dimension_options_parsed,  \* output table: None (absent) or Some(set of rows)
    matrix_profiles,           \* output table: None (absent) or Some(set of rows)
    exit_code,                 \* None while running, Some(code) once the process ended
    previous,                  \* the last completed run: its rows and its two tables
    probe,                     \* a call of parse_option: its arguments and its result
    detected,                  \* a call of detect_dim_type: its argument and its result
    normed                     \* a call of norm: its argument and its outcome

vars == <<db, runs, pc, matrix, rows, pos, seen, parse_calls, matrix_dims, matrix_nids,
          unknown_units, unknown_geo, dimension_options_parsed, matrix_profiles,
          exit_code, previous, probe, detected, normed>>

\* the universe of labels of one specification
DIM_LABELS == {"Ani", "Judete", "Sexe"}
OPTION_LABELS == {"Anul 2020", "Anul 0000", "Trimestrul I 2021", "Alba", "Zona XYZ Unknown",
                  "Luna 3000000000 2020"}
UNIT_DIM_LABELS == {"UM: Unitati de masura", "Perioade"}
UNIT_OPTION_LABELS == {"Mii lei", "UM: Procente", "buc"}
KIND_DIM_LABELS == {"Ani", "Judete", "Sexe", "Grupe de varsta", "Medii de rezidenta"}
KIND_OPTION_LABELS == {"Alba"}

AllDimLabels == DIM_LABELS \cup UNIT_DIM_LABELS \cup KIND_DIM_LABELS
AllOptionLabels == OPTION_LABELS \cup UNIT_OPTION_LABELS \cup KIND_OPTION_LABELS

\* detect_dim_type and parse_option over the labels of the corpus, evaluated
\* once and looked up by the dispatch loop
KindTable == {<<l, detect_dim_type(l)>> : l \in AllDimLabels}
KindOf(dim_label) == (CHOOSE t \in KindTable : t[1] = dim_label)[2]
ParsedTable == {<<kl, parse_option(kl[1], Some(kl[2]))>> :
                  kl \in {t[2] : t \in KindTable} \X AllOptionLabels}
Parsed(dim_type, option_label) ==
    (CHOOSE t \in ParsedTable : t[1] = <<dim_type, option_label>>)[2]
NormTable == {<<l, norm(l)>> : l \in AllOptionLabels}
Norm(option_label) == (CHOOSE t \in NormTable : t[1] = option_label)[2]

\* WHERE 1=1 {matrix_filter}
Filtered(filter) ==
    IF filter = None THEN db ELSE {r \in db : r.matrix_code = filter[1]}

\* ORDER BY d.matrix_code, d.dim_code, opt.option_offset: every arrangement
\* of the rows in which matrix_code, then dim_code, ascend (option_offset
\* orders the options of one dimension, in any way)
Fetch(filter) ==
    LET S == Filtered(filter)
        n == Cardinality(S)
        before(a, b) == \/ MatrixIndex(a.matrix_code) < MatrixIndex(b.matrix_code)
                        \/ a.matrix_code = b.matrix_code /\ a.dim_code <= b.dim_code
    IN {q \in [1..n -> S] :
            /\ \A j, k \in 1..n : j # k => q[j] # q[k]
            /\ \A j, k \in 1..n : j < k => before(q[j], q[k])}

\* the state of the dispatch loop
LoopState == [seen |-> seen, parse_calls |-> parse_calls, matrix_dims |-> matrix_dims,
              matrix_nids |-> matrix_nids, unknown_units |-> unknown_units,
              unknown_geo |-> unknown_geo]
EmptyLoopState == [seen |-> <<>>, parse_calls |-> <<>>, matrix_dims |-> <<>>,
                   matrix_nids |-> <<>>, unknown_units |-> <<>>, unknown_geo |-> <<>>]

\* d[key] = value
DictSet(d, key, value) ==
    [k \in DOMAIN d \cup {key} |-> IF k = key THEN value ELSE d[k]]

\* variant: a key is counted once however often it is met
Increment_once(counts, key) == [k \in DOMAIN counts \cup {key} |-> 1]

\* defaultdict(int)[key] += 1
Increment(counts, key) ==
    IF key \in DOMAIN counts THEN [counts EXCEPT ![key] = @ + 1] ELSE counts @@ (key :> 1)

\* variant: the granularity is taken only together with a year
Accumulate_with_year(dim_info, dim_type, parsed) ==
    IF dim_type = "time"
    THEN [dim_info EXCEPT
            !.years = IF Truthy(parsed.year) THEN Append(@, parsed.year[1]) ELSE @,
            !.granularities = IF Truthy(parsed.year) /\ parsed.time_granularity # None
                              THEN @ \cup {parsed.time_granularity[1]} ELSE @]
    ELSE IF dim_type \in {"geo", "residence"}
    THEN [dim_info EXCEPT !.geo_levels = IF parsed.geo_level # None
                                         THEN @ \cup {parsed.geo_level[1]} ELSE @]
    ELSE IF dim_type = "unit"
    THEN [dim_info EXCEPT !.unit_types = IF parsed.unit_type # None
                                         THEN @ \cup {parsed.unit_type[1]} ELSE @]
    ELSE dim_info

\* the accumulation of one parsed dict into the dimension info (lines 529-545)
Accumulate(dim_info, dim_type, parsed) ==
    IF dim_type = "time"
    THEN [dim_info EXCEPT
            !.years = IF Truthy(parsed.year) THEN Append(@, parsed.year[1]) ELSE @,
            !.granularities = IF parsed.time_granularity # None
                              THEN @ \cup {parsed.time_granularity[1]} ELSE @]
    ELSE IF dim_type \in {"geo", "residence"}
    THEN [dim_info EXCEPT !.geo_levels = IF parsed.geo_level # None
                                         THEN @ \cup {parsed.geo_level[1]} ELSE @]
    ELSE IF dim_type = "unit"
    THEN [dim_info EXCEPT !.unit_types = IF parsed.unit_type # None
                                         THEN @ \cup {parsed.unit_type[1]} ELSE @]
    ELSE dim_info

\* variant: no memo lookup, every tuple is parsed
ParsesNow_always(st, row) == TRUE

\* whether the loop parses the row's option: if nom_item_id not in seen
ParsesNow(st, row) == row.nom_item_id \notin DOMAIN st.seen

\* one iteration of the dispatch loop (lines 495-545)
LoopBody(st, row) ==
    LET dim_type == KindOf(row.dim_label)
        key      == <<row.matrix_code, row.dim_code>>
        nid      == row.nom_item_id
        dims1    == IF key \in DOMAIN st.matrix_dims THEN st.matrix_dims
                    ELSE st.matrix_dims @@
                         (key :> [dim_type |-> dim_type, dim_label |-> row.dim_label,
                                  years |-> <<>>, granularities |-> {},
                                  geo_levels |-> {}, unit_types |-> {}])
        nids1    == IF row.matrix_code \in DOMAIN st.matrix_nids
                    THEN [st.matrix_nids EXCEPT ![row.matrix_code] = Append(@, nid)]
                    ELSE st.matrix_nids @@ (row.matrix_code :> <<nid>>)
        first    == ParsesNow(st, row)
        fresh    == Parsed(dim_type, row.option_label)
                    @@ [nom_item_id |-> nid, raw_label |-> row.option_label]
        seen1    == IF first THEN DictSet(st.seen, nid, fresh) ELSE st.seen
        calls1   == IF first THEN Increment(st.parse_calls, nid) ELSE st.parse_calls
        units1   == IF first /\ dim_type = "unit" /\ fresh.unit_type = Some("other")
                    THEN Increment(st.unknown_units, Norm(row.option_label))
                    ELSE st.unknown_units
        geo1     == IF first /\ dim_type = "geo" /\ fresh.geo_level = Some("unknown")
                    THEN Increment(st.unknown_geo, Norm(row.option_label))
                    ELSE st.unknown_geo
        parsed   == seen1[nid]
    IN [seen |-> seen1, parse_calls |-> calls1,
        matrix_dims |-> [dims1 EXCEPT ![key] = Accumulate(@, dim_type, parsed)],
        matrix_nids |-> nids1, unknown_units |-> units1, unknown_geo |-> geo1]


SetMin(S) == CHOOSE v \in S : \A w \in S : v <= w
SetMax(S) == CHOOSE v \in S : \A w \in S : v >= w
SeqToSet(q) == {q[k] : k \in 1..Len(q)}

\* -- Bulk insert of the parsed options (lines 547-576) --------------------------

\* the nom_item_ids in the order the dict seen holds them (first appearance)
SeenOrder(rs) ==
    LET RECURSIVE order(_, _)
        order(k, acc) ==
            IF k > Len(rs) THEN acc
            ELSE order(k + 1, IF \E j \in 1..Len(acc) : acc[j] = rs[k].nom_item_id
                              THEN acc ELSE Append(acc, rs[k].nom_item_id))
    IN order(1, <<>>)

\* an INTEGER column takes a value of -2^31 .. 2^31-1 (or NULL)
FitsInteger(v) == ~IsBig(v)
\* the row has a value for every INTEGER column of dimension_options_parsed
Insertable(p) ==
    /\ FitsInteger(Some(p.nom_item_id))
    /\ FitsInteger(p.year) /\ FitsInteger(p.quarter) /\ FitsInteger(p.month)
    /\ FitsInteger(p.semester) /\ FitsInteger(p.siruta_code)
    /\ FitsInteger(p.age_min) /\ FitsInteger(p.age_max) /\ FitsInteger(p.unit_scale)

\* variant: only the rows parsed with high confidence are inserted
InsertRows_confident(st, order) ==
    SelectSeq([k \in 1..Len(order) |-> st.seen[order[k]]],
              LAMBDA p : p.parse_confidence >= 80)

\* insert_rows: one tuple per value of seen, in dict order
InsertRows(st, order) == [k \in 1..Len(order) |-> st.seen[order[k]]]

\* the tables a sequence of single-row inserts can leave, and whether it
\* raised: a row is refused when its value in the PRIMARY KEY column is
\* already in the table or when a value does not fit its column (fits[k]
\* says whether those of new_rows[k] do); the rows before the refused one
\* either stay or are rolled back with the statement
ExecuteMany(table, new_rows, primary_key, fits) ==
    LET n      == Len(new_rows)
        clash(k) == \/ ~fits[k]
                    \/ \E q \in table : q[primary_key] = new_rows[k][primary_key]
                    \/ \E j \in 1..(k - 1) : new_rows[j][primary_key] = new_rows[k][primary_key]
        bad    == {k \in 1..n : clash(k)}
        upto(m) == table \cup {new_rows[k] : k \in 1..m}
    IN IF bad = {} THEN {[raised |-> FALSE, table |-> upto(n)]}
       ELSE {[raised |-> TRUE, table |-> t] : t \in {table, upto(SetMin(bad) - 1)}}

\* -- Matrix profiles (lines 578-651) --------------------------------------------

\* variant: a flag asks every dimension of the dataset to be of the kind
HasKind_every(dims, kind) == \A d \in dims : d.dim_type = kind

\* any(d['dim_type'] == kind for d in dims.values()) (lines 584-589)
HasKind(dims, kind) == \E d \in dims : d.dim_type = kind

\* variant: the quotient is cut after the third decimal
Round3_floor(h, n) == (h * 1000) \div n

\* round(h / n, 3) in thousandths, n > 0: the nearest thousandth, a tie to even
Round3(h, n) ==
    LET lo == (h * 1000) \div n
        r2 == 2 * ((h * 1000) % n)
    IN IF r2 > n \/ (r2 = n /\ lo % 2 = 1) THEN lo + 1 ELSE lo

\* next(iter(all_unit_types - {'other'}), None) or next(iter(all_unit_types), None):
\* the values the expression can take; a set of str iterates in an order
\* that the process's hash seed decides
PrimaryUnits(all_unit_types) ==
    IF all_unit_types \ {"other"} # {} THEN {Some(u) : u \in all_unit_types \ {"other"}}
    ELSE IF all_unit_types # {} THEN {Some(u) : u \in all_unit_types}
    ELSE {None}

\* variant: the year range is read off the ends of the list of years, as if
\* the list were sorted
Profile_year_ends(st, matrix_code, primary_unit) ==
    LET dims == {st.matrix_dims[k] : k \in {k \in DOMAIN st.matrix_dims : k[1] = matrix_code}}
        has(kind) == \E d \in dims : d.dim_type = kind
        year_lists == {d.years : d \in {d \in dims : d.dim_type = "time" /\ d.years # <<>>}}
        all_granularities == UNION {d.granularities : d \in {d \in dims : d.dim_type = "time"}}
        all_geo_levels == UNION {d.geo_levels : d \in {d \in dims : d.dim_type \in {"geo", "residence"}}}
        all_unit_types == UNION {d.unit_types : d \in {d \in dims : d.dim_type = "unit"}}
        nids == st.matrix_nids[matrix_code]
        high_conf == Cardinality({k \in 1..Len(nids) :
                         nids[k] \in DOMAIN st.seen /\ st.seen[nids[k]].parse_confidence >= 80})
    IN [matrix_code |-> matrix_code,
        has_time |-> has("time"),
        time_granularity |-> IF Cardinality(all_granularities) > 1 THEN Some("mixed")
                             ELSE IF all_granularities # {}
                             THEN Some(CHOOSE g \in all_granularities : TRUE)
                             ELSE None,
        time_year_min |-> IF year_lists # {} THEN Some(SetMin({Head(l) : l \in year_lists})) ELSE None,
        time_year_max |-> IF year_lists # {} THEN Some(SetMax({l[Len(l)] : l \in year_lists})) ELSE None,
        has_geo |-> has("geo"),
        geo_levels |-> all_geo_levels,
        has_gender |-> has("gender"),
        has_age |-> has("age"),
        has_residence |-> has("residence"),
        unit_types |-> all_unit_types,
        primary_unit_type |-> primary_unit,
        dim_count |-> Cardinality({k \in DOMAIN st.matrix_dims : k[1] = matrix_code}),
        archetype |-> assign_archetype(has("time"), has("geo"), has("gender"), has("age"),
                                       has("residence")),
        parse_coverage |-> IF Len(nids) > 0 THEN Round3(high_conf, Len(nids)) ELSE 0]

\* the profile row of one matrix, given the value taken for primary_unit
Profile(st, matrix_code, primary_unit) ==
    LET dims == {st.matrix_dims[k] : k \in {k \in DOMAIN st.matrix_dims : k[1] = matrix_code}}
        has(kind) == HasKind(dims, kind)
        all_years == UNION {SeqToSet(d.years) : d \in {d \in dims : d.dim_type = "time"}}
        all_granularities == UNION {d.granularities : d \in {d \in dims : d.dim_type = "time"}}
        all_geo_levels == UNION {d.geo_levels : d \in {d \in dims : d.dim_type \in {"geo", "residence"}}}
        all_unit_types == UNION {d.unit_types : d \in {d \in dims : d.dim_type = "unit"}}
        nids == st.matrix_nids[matrix_code]
        high_conf == Cardinality({k \in 1..Len(nids) :
                         nids[k] \in DOMAIN st.seen /\ st.seen[nids[k]].parse_confidence >= 80})
    IN [matrix_code |-> matrix_code,
        has_time |-> has("time"),
        time_granularity |-> IF Cardinality(all_granularities) > 1 THEN Some("mixed")
                             ELSE IF all_granularities # {}
                             THEN Some(CHOOSE g \in all_granularities : TRUE)
                             ELSE None,
        time_year_min |-> IF all_years # {} THEN Some(SetMin(all_years)) ELSE None,
        time_year_max |-> IF all_years # {} THEN Some(SetMax(all_years)) ELSE None,
        has_geo |-> has("geo"),
        geo_levels |-> all_geo_levels,
        has_gender |-> has("gender"),
        has_age |-> has("age"),
        has_residence |-> has("residence"),
        unit_types |-> all_unit_types,
        primary_unit_type |-> primary_unit,
        dim_count |-> Cardinality({k \in DOMAIN st.matrix_dims : k[1] = matrix_code}),
        archetype |-> assign_archetype(has("time"), has("geo"), has("gender"), has("age"),
                                       has("residence")),
        parse_coverage |-> IF Len(nids) > 0 THEN Round3(high_conf, Len(nids)) ELSE 0]

AllUnitTypes(st, matrix_code) ==
    UNION {st.matrix_dims[k].unit_types :
             k \in {k \in DOMAIN st.matrix_dims :
                      k[1] = matrix_code /\ st.matrix_dims[k].dim_type = "unit"}}

ProfiledMatrices(st) == {k[1] : k \in DOMAIN st.matrix_dims}

\* every table of profile rows the loop over matrix_dims can build
ProfileTables(st) ==
    {{Profile(st, m, pick[m]) : m \in ProfiledMatrices(st)} :
        pick \in {f \in [ProfiledMatrices(st) -> {None} \cup {Some(u) : u \in UNION {AllUnitTypes(st, m) : m \in ProfiledMatrices(st)}}] :
                     \A m \in ProfiledMatrices(st) : f[m] \in PrimaryUnits(AllUnitTypes(st, m))}}

\* -- Summary (lines 654-675) ------------------------------------------------------

\* the unknown geo labels the summary prints: [:20] (line 673)
UNKNOWN_GEO_TOP == 20

\* sorted(counts.items(), key=lambda x: -x[1])[:top]: the sets of lines the
\* summary can print; labels of equal count keep the order in which the dict
\* received them, which the counter alone does not tell
ReportLines(counts, top) ==
    LET all  == {[label |-> l, count |-> counts[l]] : l \in DOMAIN counts}
        kept == IF Cardinality(all) <= top THEN Cardinality(all) ELSE top
    IN {R \in SUBSET all :
           /\ Cardinality(R) = kept
           /\ \A in \in R : \A out \in all \ R : out.count <= in.count}

\* -- The run of main() ----------------------------------------------------------

Ended == pc \in {"idle", "done", "exit", "crashed"}

\* variant: CREATE TABLE IF NOT EXISTS without the DROP
SchemaSetup_keep(table) == IF table = None THEN Some({}) ELSE table

\* DROP TABLE IF EXISTS t; CREATE TABLE t (...): the table afterwards
SchemaSetup(table) == Some({})

\* argument parsing, schema setup (DROP + CREATE of both tables), the fetch
\* and the zero-rows exit (lines 393-493)
StartRun(filter) ==
    /\ Ended
    /\ runs < MaxRuns
    /\ runs' = runs + 1
    /\ matrix' = filter
    /\ dimension_options_parsed' = SchemaSetup(dimension_options_parsed)
    /\ matrix_profiles' = SchemaSetup(matrix_profiles)
    /\ \E fetched \in Fetch(filter) :
          /\ rows' = fetched
          /\ IF fetched = <<>>
             THEN pc' = "exit" /\ exit_code' = Some(1)
             ELSE pc' = "loop" /\ exit_code' = None
    /\ pos' = 0
    /\ seen' = EmptyLoopState.seen
    /\ parse_calls' = EmptyLoopState.parse_calls
    /\ matrix_dims' = EmptyLoopState.matrix_dims
    /\ matrix_nids' = EmptyLoopState.matrix_nids
    /\ unknown_units' = EmptyLoopState.unknown_units
    /\ unknown_geo' = EmptyLoopState.unknown_geo
    /\ previous' = IF pc = "done"
                   THEN Some([rows |-> rows,
                              dimension_options_parsed |-> dimension_options_parsed,
                              matrix_profiles |-> matrix_profiles])
                   ELSE previous
    /\ UNCHANGED <<db, probe, detected, normed>>

\* one iteration of: for nom_item_id, option_label, dim_label, ... in rows
Dispatch ==
    /\ pc = "loop"
    /\ pos < Len(rows)
    /\ \E st \in {LoopBody(LoopState, rows[pos + 1])} :
          /\ seen' = st.seen
          /\ parse_calls' = st.parse_calls
          /\ matrix_dims' = st.matrix_dims
          /\ matrix_nids' = st.matrix_nids
          /\ unknown_units' = st.unknown_units
          /\ unknown_geo' = st.unknown_geo
    /\ pos' = pos + 1
    /\ UNCHANGED <<db, runs, pc, matrix, rows, dimension_options_parsed, matrix_profiles,
                   exit_code, previous, probe, detected, normed>>

\* conn.executemany(INSERT INTO dimension_options_parsed ...); an exception
\* ends the process with exit code 1
InsertOptions ==
    /\ pc = "loop"
    /\ pos = Len(rows)
    /\ \E insert_rows \in {InsertRows(LoopState, SeenOrder(rows))} :
       \E out \in ExecuteMany(dimension_options_parsed[1], insert_rows, "nom_item_id",
                              [k \in 1..Len(insert_rows) |-> Insertable(insert_rows[k])]) :
          /\ dimension_options_parsed' = Some(out.table)
          /\ IF out.raised
             THEN pc' = "crashed" /\ exit_code' = Some(1)
             ELSE pc' = "profiles" /\ exit_code' = exit_code
    /\ UNCHANGED <<db, runs, matrix, rows, pos, seen, parse_calls, matrix_dims, matrix_nids,
                   unknown_units, unknown_geo, matrix_profiles, previous, probe, detected, normed>>

\* the profile loop, conn.executemany(INSERT INTO matrix_profiles ...), the
\* summary and the return
BuildProfiles ==
    /\ pc = "profiles"
    /\ \E profile_rows \in ProfileTables(LoopState) :
       \E order \in {q \in [1..Cardinality(profile_rows) -> profile_rows] :
                        \A j, k \in DOMAIN q : j # k => q[j] # q[k]} :
       \E out \in ExecuteMany(matrix_profiles[1], order, "matrix_code",
                              [k \in 1..Len(order) |-> TRUE]) :
          /\ matrix_profiles' = Some(out.table)
          /\ IF out.raised
             THEN pc' = "crashed" /\ exit_code' = Some(1)
             ELSE pc' = "done" /\ exit_code' = Some(0)
    /\ UNCHANGED <<db, runs, matrix, rows, pos, seen, parse_calls, matrix_dims, matrix_nids,
                   unknown_units, unknown_geo, dimension_options_parsed, previous, probe, detected, normed>>

Next ==
    \/ \E filter \in {None} \cup {Some(m) : m \in MatrixCodes} : StartRun(filter)
    \/ Dispatch
    \/ InsertOptions
    \/ BuildProfiles

InitRows(dimLabels, optionLabels, maxRuns, maxRows) ==
    /\ db \in Corpora(JoinRows(dimLabels, optionLabels), maxRows)
    /\ runs = MaxRuns - maxRuns
    /\ pc = "idle"
    /\ matrix = None
    /\ rows = <<>>
    /\ pos = 0
    /\ seen = EmptyLoopState.seen
    /\ parse_calls = EmptyLoopState.parse_calls
    /\ matrix_dims = EmptyLoopState.matrix_dims
    /\ matrix_nids = EmptyLoopState.matrix_nids
    /\ unknown_units = EmptyLoopState.unknown_units
    /\ unknown_geo = EmptyLoopState.unknown_geo
    /\ dimension_options_parsed = None
    /\ matrix_profiles = None
    /\ exit_code = None
    /\ previous = None
    /\ probe = None
    /\ detected = None
    /\ normed = None

\* one run over a database of time, geo and gender dimensions
InitOver(dimLabels, optionLabels, maxRuns) ==
    InitRows(dimLabels, optionLabels, maxRuns, MaxRows)

Init == InitOver(DIM_LABELS, OPTION_LABELS, 1)
Spec == Init /\ [][Next]_vars

\* successive runs over a database of unit and time dimensions
InitRuns == InitOver(UNIT_DIM_LABELS, UNIT_OPTION_LABELS, MaxRuns)
SpecRuns == InitRuns /\ [][Next]_vars

\* one run over datasets of up to KindRows rows, with dimensions of the five
\* kinds that set a flag and one option label, whose confidence depends on
\* the kind it is parsed under
InitKinds == InitRows(KIND_DIM_LABELS, KIND_OPTION_LABELS, 1, KindRows)
SpecKinds == InitKinds /\ [][Next]_vars

\* -- Calls of parse_option on its own -------------------------------------------

\* the dim_type arguments: the seven kinds detect_dim_type returns, and one
\* that has no parser
PROBE_KINDS == {"time", "geo", "gender", "age", "residence", "unit", "indicator", "other"}

\* labels built as  head [ middle ] [ tail ]  with single spaces between
PROBE_HEADS == {"Anul", "Trimestrul", "Semestrul", "Luna", "sub", "peste", "Regiunea",
                "Municipiul", "Orasul", "UM:", "Total", "Alba", "1017", "65", "Masculin", "Urban"}
PROBE_MIDDLES == {"", "I", "IV", "3", "13", "mai", "65", "3000000000", "lei", "Bucure]ti"}
PROBE_TAILS == {"", "2020", "ani", "ani si peste"}
Join(a, b) == IF a = "" THEN b ELSE IF b = "" THEN a ELSE a \o " " \o b
PROBE_LABELS ==
    {Join(h, Join(m, t)) : <<h, m, t>> \in PROBE_HEADS \X PROBE_MIDDLES \X PROBE_TAILS}
    \cup {"", " ", "Zona XYZ Unknown", "Macroregiunea Unu", "15-19 ani", "Ambele sexe",
          "Necunoscut", "Femei", "Mediul rural", "@ lei", "Trimestrul IIV 2019", "2019",
          "2010-2015", "Anul 0000", "1017 MUNICIPIUL ALBA IULIA", "Toate v}rstele",
          "Luna 0 2020", "Luna xyz 2020", "Orasul Abrud", "Oras Abrud",
          "Total v}rste", "Persoane de 15-19 ani", "peste 65 ani", "sub 18 ani",
          "65 ani si mai mult", "sub 0 ani",
          "Masculin si feminin", "Baieti si fete", "Persoane de sex feminin",
          "Sex necunoscut", "Femei cu sex necunoscut", "Total femei", "Total general",
          "  TOTAL ", "Mii lei", "UM: Mii lei", "UM:Mii lei", "UM: Procente",
          "UM:   %", "um: xyz", "Miliarde lei", "UM: Miliarde lei", "DTS", "Mii euro",
          "UM: Mii dolari SUA", "buc", "Lei noi", "UM: UM: lei",
          "65-15 ani", "0-4 ani", "0 ani", "sub 1 ani", "peste 0 ani"}

ProbeCall(dim_type, option_label) ==
    /\ probe = None /\ detected = None /\ normed = None
    /\ pc = "idle"
    /\ probe' = Some([dim_type |-> dim_type, option_label |-> option_label,
                       result |-> parse_option(dim_type, option_label)])
    /\ UNCHANGED <<db, runs, pc, matrix, rows, pos, seen, parse_calls, matrix_dims,
                   matrix_nids, unknown_units, unknown_geo, dimension_options_parsed,
                   matrix_profiles, exit_code, previous, detected, normed>>

\* dimension names built as  word [ si word ]
DETECT_WORDS == {"UM:", "UM", "Umiditate", "Ani", "Anii", "Perioade", "Luni", "Sexe", "Sex",
                 "Grupe de v}rst{", "V}rste", "Medii de reziden|{", "Grad de urbanizare",
                 "Jude|e", "Regiuni", "Indicatori"}
DETECT_LABELS ==
    {IF b = "" THEN a ELSE a \o " si " \o b : <<a, b>> \in DETECT_WORDS \X (DETECT_WORDS \cup {""})}
    \cup {"", " ", "um", "UM Unitati", "Sexe [i regiuni", "Ani de studiu",
          "UM: ani de v}rst{", "Sexe, ani de v}rst{", "Perioade, ani de v}rst{",
          "Ani de v}rst{ pe medii de reziden|{ [i sexe", "Anii de v}rst{"}

DetectCall(dim_label) ==
    /\ probe = None /\ detected = None /\ normed = None
    /\ pc = "idle"
    /\ detected' = Some([dim_label |-> dim_label, kind |-> detect_dim_type(dim_label)])
    /\ UNCHANGED <<db, runs, pc, matrix, rows, pos, seen, parse_calls, matrix_dims,
                   matrix_nids, unknown_units, unknown_geo, dimension_options_parsed,
                   matrix_profiles, exit_code, previous, probe, normed>>

\* the arguments given to norm: None and texts with blanks at the ends,
\* capitals, diacritics and a character that has no ASCII form
NORM_TEXTS == {"", " ", "  Alba  ", "ALBA", "Bucure]ti", "^ARA ROM~NEASC{", "Jude|e",
               "[n v}rst{", "@ lei", "lei @", "Mii lei"}

\* norm(s), s being None or Some(text): None has no strip(), the call
\* raises AttributeError
norm_outcome(s) ==
    IF s = None THEN [raised |-> TRUE, value |-> None]
    ELSE [raised |-> FALSE, value |-> Some(norm(s[1]))]

NormCall(s) ==
    /\ probe = None /\ detected = None /\ normed = None
    /\ pc = "idle"
    /\ normed' = Some([s |-> s] @@ norm_outcome(s))
    /\ UNCHANGED <<db, runs, pc, matrix, rows, pos, seen, parse_calls, matrix_dims,
                   matrix_nids, unknown_units, unknown_geo, dimension_options_parsed,
                   matrix_profiles, exit_code, previous, probe, detected>>

NextParse ==
    \/ \E dim_type \in PROBE_KINDS, option_label \in {None} \cup {Some(l) : l \in PROBE_LABELS} :
          ProbeCall(dim_type, option_label)
    \/ \E dim_label \in DETECT_LABELS : DetectCall(dim_label)
    \/ \E s \in {None} \cup {Some(t) : t \in NORM_TEXTS} : NormCall(s)

InitParse ==
    /\ db = {}
    /\ runs = MaxRuns
    /\ pc = "idle"
    /\ matrix = None
    /\ rows = <<>>
    /\ pos = 0
    /\ seen = EmptyLoopState.seen
    /\ parse_calls = EmptyLoopState.parse_calls
    /\ matrix_dims = EmptyLoopState.matrix_dims
    /\ matrix_nids = EmptyLoopState.matrix_nids
    /\ unknown_units = EmptyLoopState.unknown_units
    /\ unknown_geo = EmptyLoopState.unknown_geo
    /\ dimension_options_parsed = None
    /\ matrix_profiles = None
    /\ exit_code = None
    /\ previous = None
    /\ probe = None
    /\ detected = None
    /\ normed = None

\* single calls of parse_option and of detect_dim_type over the probe kinds,
\* labels and dimension names
SpecParse == InitParse /\ [][NextParse]_vars

\* =============================================================================
\* Properties
\* =============================================================================

IdsOf(rs) == {rs[k].nom_item_id : k \in 1..Len(rs)}
\* the index of the first tuple of rs that carries nom_item_id nid
FirstTuple(rs, nid) == SetMin({k \in 1..Len(rs) : rs[k].nom_item_id = nid})
\* the tuples of rs[1..n] that belong to the dimension key
TuplesOf(rs, n, key) ==
    {k \in 1..n : <<rs[k].matrix_code, rs[k].dim_code>> = key}

\* C1: after a completed run the ParsedOption table holds exactly one row for
\* each distinct option id of the input stream and no row for any other id,
\* however many tuples carry the id.
C1_OneRowPerOptionId ==
    pc = "done" =>
        \A nid \in 1..NumIds :
            Cardinality({p \in dimension_options_parsed[1] : p.nom_item_id = nid})
                = IF nid \in IdsOf(rows) THEN 1 ELSE 0

\* a completed run whose stream carried one option id in two tuples
C1_Witness ==
    /\ pc = "done"
    /\ \E j, k \in 1..Len(rows) : j # k /\ rows[j].nom_item_id = rows[k].nom_item_id
    /\ dimension_options_parsed[1] # {}

\* C2: of the tuples that share an option id the parser is invoked only at
\* the first, and for every tuple the accumulators of the tuple's own
\* dimension take the fields of the memoized record: parsed year and
\* granularity for a time dimension, geographic level for a geo or residence
\* dimension, unit type for a unit dimension.
C2_MemoizedAccumulation ==
    pc \in {"loop", "profiles", "done"} =>
        /\ \A nid \in IdsOf(SubSeq(rows, 1, pos)) : parse_calls[nid] = 1
        /\ \A key \in DOMAIN matrix_dims :
              LET d    == matrix_dims[key]
                  memo == {seen[rows[k].nom_item_id] : k \in TuplesOf(rows, pos, key)}
                  of(field) == {p[field][1] : p \in {p \in memo : p[field] # None}}
              IN /\ d.dim_type = "time" =>
                      /\ SeqToSet(d.years) = of("year")
                      /\ Len(d.years) = Cardinality({k \in TuplesOf(rows, pos, key) :
                                            seen[rows[k].nom_item_id].year # None})
                      /\ d.granularities = of("time_granularity")
                 /\ d.dim_type \in {"geo", "residence"} => d.geo_levels = of("geo_level")
                 /\ d.dim_type = "unit" => d.unit_types = of("unit_type")

\* C3: a memoized record never changes once stored: it is the parse of the
\* first tuple processed for its id, under the kind detected from that
\* tuple's dimension label, whatever kinds later tuples with the id have.
C3_MemoOfFirstTuple ==
    pc \in {"loop", "profiles", "done"} =>
        \A nid \in DOMAIN seen :
            LET first == rows[FirstTuple(rows, nid)]
                kind  == KindOf(first.dim_label)
            IN /\ FirstTuple(rows, nid) <= pos
               /\ seen[nid].nom_item_id = nid
               /\ seen[nid].raw_label = first.option_label
               /\ seen[nid].dim_type = (IF kind \in PARSERS \cup {"indicator"} THEN kind ELSE "other")
               /\ \A f \in DOMAIN NO_FIELDS \cup {"parse_confidence"} :
                     seen[nid][f] = Parsed(kind, first.option_label)[f]

\* an id processed twice, the second time under a dimension of another kind
C3_Witness ==
    /\ pc = "loop" /\ pos = 2
    /\ rows[1].nom_item_id = rows[2].nom_item_id
    /\ KindOf(rows[1].dim_label) # KindOf(rows[2].dim_label)
    /\ rows[1].nom_item_id \in DOMAIN seen

DIM_TYPES == PARSERS \cup {"indicator", "other"}

\* C4: parse_option is total: for any kind, known or not, and any label,
\* missing or empty included, it returns a record whose dim_type is set and
\* whose parse_confidence lies in 0.0..1.0; the indicator kind gives
\* confidence 1.0 and a kind with no parser gives dim_type other and 0.0.
C4_ParseOptionTotal ==
    probe # None =>
        LET r == probe[1].result
            k == probe[1].dim_type
        IN /\ r.dim_type \in DIM_TYPES
           /\ r.parse_confidence \in 0..100
           /\ k = "indicator" => r.dim_type = "indicator" /\ r.parse_confidence = 100
           /\ k \notin PARSERS \cup {"indicator"} => r.dim_type = "other" /\ r.parse_confidence = 0

\* a call for the indicator kind with a missing label
C4_Witness ==
    /\ probe # None
    /\ probe[1].dim_type = "indicator"
    /\ probe[1].option_label = None
    /\ probe[1].result.parse_confidence = 100

\* a call for a kind that has no parser
C4_WitnessUnknownKind ==
    /\ probe # None
    /\ probe[1].dim_type \notin PARSERS \cup {"indicator"}
    /\ probe[1].result.dim_type = "other"


\* the loop state after the dispatch loop has run over the stream rs
FoldRows(rs) ==
    LET RECURSIVE fold(_, _)
        fold(st, k) == IF k > Len(rs) THEN st ELSE fold(LoopBody(st, rs[k]), k + 1)
    IN fold(EmptyLoopState, 1)
\* the streams that hold the same tuples as rs, in every order
Reorderings(rs) ==
    {[k \in 1..Len(rs) |-> rs[f[k]]] :
        f \in {g \in [1..Len(rs) -> 1..Len(rs)] : \A i, j \in 1..Len(rs) : i # j => g[i] # g[j]}}
\* the ParsedOption rows a run over rs computes
ParsedRowsOf(rs) == SeqToSet(InsertRows(FoldRows(rs), SeenOrder(rs)))
\* the profile tables a run over rs can compute
ProfilesOf(rs) == ProfileTables(FoldRows(rs))
\* every option id of rs comes with one label, under dimensions of one kind
OneLabelAndKindPerId(rs) ==
    \A j, k \in 1..Len(rs) :
        rs[j].nom_item_id = rs[k].nom_item_id =>
            /\ rs[j].option_label = rs[k].option_label
            /\ KindOf(rs[j].dim_label) = KindOf(rs[k].dim_label)

\* C5 as stated: the rows of both output tables are the same for every
\* order of the input tuples.
C5_AnyOrderSameOutput ==
    pc = "done" =>
        \A q \in Reorderings(rows) :
            /\ ParsedRowsOf(q) = dimension_options_parsed[1]
            /\ matrix_profiles[1] \in ProfilesOf(q)

\* C5, amended: the ids of the ParsedOption rows, the profiled datasets and
\* their dim_count are the same for every order of the input tuples; the
\* ParsedOption rows and the profile tables a run can produce are the same
\* for every order when every option id comes with one label under
\* dimensions of one kind.
C5_OrderIndependence ==
    pc = "done" =>
        \A q \in Reorderings(rows) :
            /\ {p.nom_item_id : p \in ParsedRowsOf(q)}
                 = {p.nom_item_id : p \in dimension_options_parsed[1]}
            /\ \A t \in ProfilesOf(q) :
                  {<<p.matrix_code, p.dim_count>> : p \in t}
                    = {<<p.matrix_code, p.dim_count>> : p \in matrix_profiles[1]}
            /\ OneLabelAndKindPerId(rows) =>
                  /\ ParsedRowsOf(q) = dimension_options_parsed[1]
                  /\ ProfilesOf(q) = ProfilesOf(rows)
                  /\ matrix_profiles[1] \in ProfilesOf(q)

\* a completed run over two tuples with different years in one time dimension
C5_Witness ==
    /\ pc = "done"
    /\ Len(rows) = 2
    /\ OneLabelAndKindPerId(rows)
    /\ rows[1].matrix_code = rows[2].matrix_code /\ rows[1].dim_code = rows[2].dim_code
    /\ \E p \in matrix_profiles[1] : p.time_year_min # p.time_year_max


\* C6: two runs over the same ordered input produce identical output: every
\* field of every ParsedOption row and of every DatasetProfile row,
\* time_granularity and primary_unit_type included, is the same in both.
C6_SameInputSameOutput ==
    (pc = "done" /\ previous # None /\ previous[1].rows = rows) =>
        /\ dimension_options_parsed = previous[1].dimension_options_parsed
        /\ matrix_profiles = previous[1].matrix_profiles


ARCHETYPES == {"geo_time", "demographic", "time_residence", "time_series", "geo_only",
               "categorical"}
\* the archetype that the precedence of the rules gives to a combination of
\* flags: each tag stated by the flags it needs and the flags that exclude it
ArchetypeByPrecedence(t, g, s, a, r) ==
    CHOOSE x \in ARCHETYPES :
        /\ x = "geo_time" <=> (t /\ g)
        /\ x = "demographic" <=> (t /\ ~g /\ (s \/ a))
        /\ x = "time_residence" <=> (t /\ ~g /\ ~s /\ ~a /\ r)
        /\ x = "time_series" <=> (t /\ ~g /\ ~s /\ ~a /\ ~r)
        /\ x = "geo_only" <=> (~t /\ g)
        /\ x = "categorical" <=> (~t /\ ~g)

\* C7: for each of the 32 combinations of the five flags assign_archetype
\* returns the tag of the first rule that holds in the order geo_time,
\* demographic, time_residence, time_series, geo_only, categorical; and the
\* archetype of every profile row is that tag for the row's own flags.
C7_ArchetypePrecedence ==
    /\ \A t, g, s, a, r \in BOOLEAN :
          assign_archetype(t, g, s, a, r) = ArchetypeByPrecedence(t, g, s, a, r)
    /\ pc = "done" =>
          \A p \in matrix_profiles[1] :
              p.archetype = ArchetypeByPrecedence(p.has_time, p.has_geo, p.has_gender,
                                                  p.has_age, p.has_residence)

\* a profile of a dataset with a time and a gender dimension
C7_Witness ==
    /\ pc = "done"
    /\ \E p \in matrix_profiles[1] :
          p.has_time /\ p.has_gender /\ ~p.has_geo /\ p.archetype = "demographic"

\* a profile of a dataset with a time and a geo dimension
C7_WitnessGeoTime ==
    /\ pc = "done"
    /\ \E p \in matrix_profiles[1] : p.has_time /\ p.has_geo /\ p.archetype = "geo_time"


\* C8: after a completed run both tables hold exactly the rows computed
\* from that run's input, whatever runs came before it: no row written by
\* an earlier run survives, also when the run was restricted to one dataset
\* with --matrix.
C8_TablesOfLastRun ==
    pc = "done" =>
        /\ dimension_options_parsed[1] = ParsedRowsOf(rows)
        /\ matrix_profiles[1] \in ProfilesOf(rows)
        /\ matrix # None => \A p \in matrix_profiles[1] : p.matrix_code = matrix[1]

\* a completed run restricted to one dataset, after a completed run that
\* wrote a profile of another dataset and a row of another option id
C8_Witness ==
    /\ pc = "done" /\ matrix # None /\ previous # None
    /\ \E p \in previous[1].matrix_profiles[1] : p.matrix_code # matrix[1]
    /\ \E p \in previous[1].dimension_options_parsed[1] : p.nom_item_id \notin IdsOf(rows)


\* C9: a run ends with exit code 1 if and only if the input query returned
\* no row, and then no option was parsed and no row inserted; a run with at
\* least one input row processes every tuple, writes both tables and ends
\* with exit code 0.
C9_ExitCodeOneIffNoRows ==
    pc \in {"done", "exit", "crashed"} =>
        /\ exit_code = Some(1) <=> rows = <<>>
        /\ rows = <<>> =>
              /\ DOMAIN parse_calls = {}
              /\ dimension_options_parsed = Some({}) /\ matrix_profiles = Some({})
        /\ rows # <<>> =>
              /\ exit_code = Some(0)
              /\ pos = Len(rows)
              /\ dimension_options_parsed[1] = ParsedRowsOf(rows)
              /\ Cardinality(matrix_profiles[1]) = Cardinality(ProfiledMatrices(LoopState))


\* the record is the fallback of its kind: the one a parser returns for a
\* label that matches none of its patterns
IsFallback(r) ==
    \/ r.dim_type = "time" /\ r.time_granularity = None
    \/ r.dim_type = "geo" /\ r.geo_level = Some("unknown")
    \/ r.dim_type = "gender" /\ r.gender = Some("other")
    \/ r.dim_type = "age" /\ r.age_min = None /\ r.age_max = None
    \/ r.dim_type = "residence"
         /\ r.geo_name_clean \notin {Some("urban"), Some("rural"), Some("total")}
    \/ r.dim_type = "unit" /\ r.unit_type = Some("other")

\* C10 as stated: the fallback record of each of the six kinds has a
\* parse_confidence between 0.1 and 0.3.
C10_FallbackConfidenceLow ==
    (probe # None /\ probe[1].dim_type \in PARSERS /\ IsFallback(probe[1].result)) =>
        probe[1].result.parse_confidence \in 10..30

\* C10, amended: a label that matches no pattern of its kind gets the
\* kind's fallback record, with parse_confidence 0.1 for time, 0.2 for geo,
\* 0.3 for age and 0.1 for unit, all within 0.1..0.3, but 0.5 for gender and
\* 0.7 for residence.
C10_FallbackConfidence ==
    (probe # None /\ probe[1].dim_type \in PARSERS /\ IsFallback(probe[1].result)) =>
        LET k == probe[1].dim_type
            c == probe[1].result.parse_confidence
        IN /\ probe[1].result.dim_type = k
           /\ k = "time" => c = 10
           /\ k = "geo" => c = 20
           /\ k = "age" => c = 30
           /\ k = "unit" => c = 10
           /\ k = "gender" => c = 50
           /\ k = "residence" => c = 70

\* a residence label that matches no pattern
C10_Witness ==
    /\ probe # None /\ probe[1].dim_type = "residence"
    /\ IsFallback(probe[1].result)
    /\ probe[1].result.parse_confidence = 70

\* the fallback of every kind is reached
C10_WitnessTime == probe # None /\ probe[1].dim_type = "time" /\ IsFallback(probe[1].result)
C10_WitnessGeo == probe # None /\ probe[1].dim_type = "geo" /\ IsFallback(probe[1].result)
C10_WitnessGender == probe # None /\ probe[1].dim_type = "gender" /\ IsFallback(probe[1].result)
C10_WitnessAge == probe # None /\ probe[1].dim_type = "age" /\ IsFallback(probe[1].result)
C10_WitnessUnit == probe # None /\ probe[1].dim_type = "unit" /\ IsFallback(probe[1].result)


TIME_GRANULARITIES == {"annual", "quarterly", "semester", "monthly", "other"}

\* C11: in every record parse_time returns, quarter when set is in 1..4,
\* month when set is in 1..12, semester when set is in 1..2, and
\* time_granularity when set is one of annual, quarterly, semester, monthly,
\* other.
C11_TimeFieldRanges ==
    (probe # None /\ probe[1].dim_type = "time") =>
        LET r == probe[1].result
        IN /\ r.quarter # None => IsInt(r.quarter) /\ r.quarter[1] \in 1..4
           /\ r.month # None => IsInt(r.month) /\ r.month[1] \in 1..12
           /\ r.semester # None => IsInt(r.semester) /\ r.semester[1] \in 1..2
           /\ r.time_granularity # None => r.time_granularity[1] \in TIME_GRANULARITIES


\* the text of a probed label as the parsers see it after normalization
ProbedText(option_label) ==
    norm(Strip(IF option_label = None THEN "" ELSE option_label[1]))
ARABIC == [t \in {"1", "2", "3", "4", "5", "6", "7", "8", "9"} |-> DigitsValue(t)]
\* the value of a quarter or semester numeral, Roman or Arabic, up to max
Numeral(t, max) ==
    IF t \in DOMAIN ROMAN /\ ROMAN[t] <= max THEN Some(ROMAN[t])
    ELSE IF t \in DOMAIN ARABIC /\ ARABIC[t] <= max THEN Some(ARABIC[t])
    ELSE None
\* the value of a month given by name or by number
MonthOf(t) ==
    IF t \in DOMAIN RO_MONTHS THEN Some(RO_MONTHS[t])
    ELSE IF t # "" /\ IsDigits(t) THEN int(t)
    ELSE None
\* the first year of four digits written in the text, or None
FirstYear(sn) ==
    LET at == {i \in 1..Len(sn) : DigitRun(sn, i) >= 4}
    IN IF at = {} THEN None ELSE int(SubSeq(sn, SetMin(at), SetMin(at) + 3))
\* the record that the first of the seven time rules the text matches gives
TimeByRules(sn) ==
    LET trim == KeywordTokenYear(sn, "trimestrul")
        sem  == KeywordTokenYear(sn, "semestrul")
        luna == KeywordTokenYear(sn, "luna")
    IN IF StartsWith(sn, "anul") /\ SpaceRun(sn, 5) >= 1
            /\ DigitRun(sn, 5 + SpaceRun(sn, 5)) >= 4
       THEN [Dict("time", 100) EXCEPT !.year = FirstYear(From(sn, 5)),
                                      !.time_granularity = Some("annual")]
       ELSE IF trim # None /\ Numeral(trim[1], 4) # None
       THEN [Dict("time", 100) EXCEPT !.year = int(trim[2]), !.quarter = Numeral(trim[1], 4),
                                      !.time_granularity = Some("quarterly")]
       ELSE IF sem # None /\ Numeral(sem[1], 2) # None
       THEN [Dict("time", 100) EXCEPT !.year = int(sem[2]), !.semester = Numeral(sem[1], 2),
                                      !.time_granularity = Some("semester")]
       ELSE IF luna # None /\ MonthOf(luna[1]) # None
       THEN [Dict("time", 100) EXCEPT !.year = int(luna[2]), !.month = MonthOf(luna[1]),
                                      !.time_granularity = Some("monthly")]
       ELSE IF Len(sn) = 4 /\ IsDigits(sn)
       THEN [Dict("time", 100) EXCEPT !.year = int(sn), !.time_granularity = Some("annual")]
       ELSE IF FirstYear(sn) # None
       THEN [Dict("time", 50) EXCEPT !.year = FirstYear(sn), !.time_granularity = Some("other")]
       ELSE Dict("time", 10)

\* C12: parse_time applies the first rule the label matches in the order
\* Anul YYYY, Trimestrul q YYYY, Semestrul s YYYY, Luna m YYYY (m a month
\* name or a number), bare year, embedded year, failure: the first five
\* give confidence 1.0 with the rule's granularity and fields, an embedded
\* year gives that year with granularity other at 0.5, and a label without
\* a year gives 0.1 with no time field set.
C12_TimeFirstRule ==
    (probe # None /\ probe[1].dim_type = "time") =>
        probe[1].result = TimeByRules(ProbedText(probe[1].option_label))


\* the locality prefixes as written after normalization
MUNICIPIU_ORAS == {"municipiul", "municipiu", "oras", "orasul"}
\* the number of the first of the nine geo rules that the label matches
GeoRule(s) ==
    LET sn == norm(s)
        d  == DigitRun(s, 1)
    IN IF sn \in NATIONAL_TOTALS THEN 1
       ELSE IF Contains(sn, "macroregiunea") THEN 2
       ELSE IF StartsWith(sn, "regiunea")
               \/ \E i \in 1..Len(sn) : WordBoundary(sn, i) /\ PrefixThenWord(sn, i, "regiunea")
       THEN 3
       ELSE IF Contains(sn, "bucuresti") THEN 4
       ELSE IF \E pre \in MUNICIPIU_ORAS : PrefixThenWord(sn, 1, pre) THEN 5
       ELSE IF sn \in COUNTIES_NORM THEN 6
       ELSE IF d \in 4..6 /\ SpaceRun(s, d + 1) >= 1 /\ d + SpaceRun(s, d + 1) < Len(s) THEN 7
       ELSE IF HasWholeWord(sn, "urban") \/ HasWholeWord(sn, "rural") THEN 8
       ELSE 9
\* geo_level and parse_confidence of each rule
GEO_RULES == <<
    <<"national", 100>>, <<"macroregion", 100>>, <<"region", 100>>, <<"county", 100>>,
    <<"locality", 90>>, <<"county", 100>>, <<"locality", 100>>, <<"residence", 100>>,
    <<"unknown", 20>> >>

\* C13: parse_geo returns the result of the first matching rule in the order
\* national total, macroregiunea, regiunea, Bucharest variant, municipiu or
\* oras prefix, county lexicon, SIRUTA code and name, whole-word urban or
\* rural, else unknown at 0.2; a Bucharest variant is the county Municipiul
\* Bucuresti at 1.0, and siruta_code is set only by the SIRUTA rule.
C13_GeoFirstRule ==
    (probe # None /\ probe[1].dim_type = "geo") =>
        LET r    == probe[1].result
            rule == GeoRule(Strip(IF probe[1].option_label = None THEN ""
                                  ELSE probe[1].option_label[1]))
        IN /\ r.geo_level = Some(GEO_RULES[rule][1])
           /\ r.parse_confidence = GEO_RULES[rule][2]
           /\ rule = 4 => r.geo_name_clean = Some("Municipiul Bucure]ti")
           /\ r.siruta_code # None <=> rule = 7


\* the words of a text: its maximal runs without white space
Tokens(s) ==
    LET RECURSIVE tok(_)
        tok(i) == IF i > Len(s) THEN <<>>
                  ELSE IF IsSpace(Chr(s, i)) THEN tok(i + 1)
                  ELSE <<SubSeq(s, i, i + NonSpaceRun(s, i) - 1)>> \o tok(i + NonSpaceRun(s, i))
    IN tok(1)
IsNumber(t) == t # "" /\ IsDigits(t)
\* <<X, Y>> for a word X-Y of two numbers, else None
RangeWord(t) ==
    LET d == DigitRun(t, 1)
    IN IF d >= 1 /\ d + 1 < Len(t) /\ Chr(t, d + 1) = "-" /\ IsNumber(From(t, d + 2))
       THEN <<SubSeq(t, 1, d), From(t, d + 2)>>
       ELSE None
\* <<age_min, age_max>> of a label that is, as a whole, of one of the
\* stated forms; None for any other label
AgeByForm(sn) ==
    LET w == Tokens(sn)
        n == Len(w)
    IN IF w = <<"total">> \/ w = <<"toate", "varstele">> THEN <<Some(0), Some(999)>>
       ELSE IF n = 2 /\ RangeWord(w[1]) # None /\ w[2] = "ani"
       THEN <<int(RangeWord(w[1])[1]), int(RangeWord(w[1])[2])>>
       ELSE IF n = 2 /\ IsNumber(w[1]) /\ w[2] = "ani" THEN <<int(w[1]), int(w[1])>>
       ELSE IF n = 3 /\ w[1] = "sub" /\ IsNumber(w[2]) /\ w[3] = "ani"
       THEN <<Some(0), PySub1(int(w[2]))>>
       ELSE IF n >= 4 /\ IsNumber(w[1]) /\ w[2] = "ani" /\ w[3] = "si"
               /\ SubSeq(w, 4, n) \in {<<"peste">>, <<"mai", "mult">>}
       THEN <<int(w[1]), Some(999)>>
       ELSE IF n = 3 /\ w[1] = "peste" /\ IsNumber(w[2]) /\ w[3] = "ani"
       THEN <<PyAdd1(int(w[2])), Some(999)>>
       ELSE None
\* one of the age patterns is found in the text, as the parser searches them
AgePatternFound(sn) ==
    \/ Strip(sn) \in {"total", "total varste", "toate varstele"}
    \/ AgeSingle(sn) # None
    \/ \E i \in 1..Len(sn) :
          \/ AgeRangeAt(sn, i) # None
          \/ WordAgeAt(sn, i, "sub") # None
          \/ AgeAndOverAt(sn, i) # None
          \/ WordAgeAt(sn, i, "peste") # None

\* C14 as stated: a label of one of the six forms gets the form's bounds at
\* confidence 1.0, and any other label gets both bounds null at 0.3.
C14_AgeFormsOnly ==
    (probe # None /\ probe[1].dim_type = "age") =>
        LET r == probe[1].result
            f == AgeByForm(ProbedText(probe[1].option_label))
        IN IF f # None
           THEN r.age_min = f[1] /\ r.age_max = f[2] /\ r.parse_confidence = 100
           ELSE r.age_min = None /\ r.age_max = None /\ r.parse_confidence = 30

\* C14, amended: a label of one of the six forms gets the form's bounds at
\* confidence 1.0; both bounds are null at 0.3 exactly for the labels in
\* which no age pattern is found, where the patterns X-Y ani, sub X ani,
\* X ani si peste / mai mult and peste X ani are searched anywhere in the
\* label, an stands for ani, and total varste counts as the total; every
\* other label gets bounds at 1.0, and an upper bound is open-ended only
\* as 999.
C14_AgeForms ==
    (probe # None /\ probe[1].dim_type = "age") =>
        LET r  == probe[1].result
            sn == ProbedText(probe[1].option_label)
            f  == AgeByForm(sn)
        IN /\ f # None => r.age_min = f[1] /\ r.age_max = f[2] /\ r.parse_confidence = 100
           /\ IF AgePatternFound(sn)
              THEN r.age_min # None /\ r.age_max # None /\ r.parse_confidence = 100
              ELSE r.age_min = None /\ r.age_max = None /\ r.parse_confidence = 30

\* the label peste 65 ani, parsed to the ages 66 and over
C14_Witness ==
    /\ probe # None /\ probe[1].dim_type = "age"
    /\ probe[1].option_label = Some("peste 65 ani")
    /\ probe[1].result.age_min = Some(66) /\ probe[1].result.age_max = Some(999)

\* a label that is none of the six forms and still gets bounds
C14_WitnessOtherLabel ==
    /\ probe # None /\ probe[1].dim_type = "age"
    /\ AgeByForm(ProbedText(probe[1].option_label)) = None
    /\ probe[1].result.age_min # None


\* the rules of the detector in their order, and whether the rule of a kind
\* is satisfied by a normalized name; um is the condition of the unit rule
KIND_ORDER == <<"unit", "time", "gender", "age", "residence", "geo">>
Satisfies(sn, kind, um) ==
    CASE kind = "unit" -> um
      [] kind = "time" ->
            \/ \E k \in TIME_KEYWORDS : Contains(sn, k)
            \/ sn \in TIME_NAMES
            \/ HasWholeWord(sn, "ani") /\ ~Contains(sn, "varst")
      [] kind = "gender" -> (HasWholeWord(sn, "sexe") /\ ~Contains(sn, "rezidenta")) \/ sn = "sex"
      [] kind = "age" -> \E k \in AGE_KEYWORDS : Contains(sn, k)
      [] kind = "residence" ->
            \/ Contains(sn, "rezidenta") \/ Contains(sn, "grad de urbanizare")
            \/ Contains(sn, "medii de rezident")
      [] kind = "geo" -> \E k \in GEO_KEYWORDS : Contains(sn, k)
\* the kind of the first satisfied rule, indicator when there is none
FirstKind(sn, um) ==
    LET sat == {i \in 1..Len(KIND_ORDER) : Satisfies(sn, KIND_ORDER[i], um)}
    IN IF sat = {} THEN "indicator" ELSE KIND_ORDER[SetMin(sat)]

\* C15 as stated: detect_dim_type returns the kind of the first satisfied
\* rule, the unit rule being that the name starts with or equals um.
C15_DetectStartsWithUm ==
    detected # None =>
        LET sn == norm(detected[1].dim_label)
        IN detected[1].kind = FirstKind(sn, StartsWith(sn, "um"))

\* C15, amended: detect_dim_type returns the kind of the first satisfied rule
\* in the order unit, time, gender, age, residence, geo, else indicator,
\* where the unit rule is that the name equals um or starts with um
\* followed by a colon or a space; a name with sexe and a geo keyword is
\* gender, a name with a time keyword and sexe is time, a name with sexe
\* and rezidenta is residence (when no earlier rule holds), and the result
\* is one of the seven kinds, never other.
C15_DetectFirstRule ==
    detected # None =>
        LET sn   == norm(detected[1].dim_label)
            um   == sn = "um" \/ StartsWith(sn, "um:") \/ StartsWith(sn, "um ")
            kind == detected[1].kind
            time == \E k \in TIME_KEYWORDS : Contains(sn, k)
        IN /\ kind = FirstKind(sn, um)
           /\ kind \in PARSERS \cup {"indicator"}
           /\ (~um /\ time /\ HasWholeWord(sn, "sexe")) => kind = "time"
           /\ (HasWholeWord(sn, "sexe") /\ (\E k \in GEO_KEYWORDS : Contains(sn, k))
               /\ ~Contains(sn, "rezidenta") /\ ~Satisfies(sn, "unit", um)
               /\ ~Satisfies(sn, "time", um)) => kind = "gender"
           /\ (HasWholeWord(sn, "sexe") /\ Contains(sn, "rezidenta")
               /\ ~Satisfies(sn, "unit", um) /\ ~Satisfies(sn, "time", um)
               /\ ~Satisfies(sn, "age", um)) => kind = "residence"

\* a name with sexe and a geo keyword, detected as gender
C15_Witness ==
    /\ detected # None
    /\ detected[1].dim_label = "Sexe [i regiuni"
    /\ detected[1].kind = "gender"

\* a name that starts with um and is no unit dimension
C15_WitnessUm ==
    /\ detected # None
    /\ StartsWith(norm(detected[1].dim_label), "um")
    /\ detected[1].kind = "indicator"


\* the tuples of the stream that belong to a dimension of the given kinds
\* of dataset m, in stream order
TuplesOfKind(m, kinds) ==
    {k \in 1..Len(rows) : rows[k].matrix_code = m /\ KindOf(rows[k].dim_label) \in kinds}
\* the values of a field that the options of those tuples yielded
Yielded(m, kinds, field) ==
    {seen[rows[k].nom_item_id][field][1] :
        k \in {k \in TuplesOfKind(m, kinds) : seen[rows[k].nom_item_id][field] # None}}

\* C16: the time_granularity of a profile is mixed when the options of the
\* dataset's time dimensions yielded more than one granularity, that
\* granularity when they yielded exactly one, and null when they yielded
\* none; a dataset whose time options are all of one granularity is never
\* mixed.
C16_TimeGranularity ==
    pc = "done" =>
        \A p \in matrix_profiles[1] :
            LET G == Yielded(p.matrix_code, {"time"}, "time_granularity")
            IN /\ Cardinality(G) > 1 => p.time_granularity = Some("mixed")
               /\ Cardinality(G) = 1 => p.time_granularity = Some(CHOOSE g \in G : TRUE)
               /\ G = {} => p.time_granularity = None

\* a dataset with an annual and a quarterly option
C16_Witness ==
    /\ pc = "done"
    /\ \E p \in matrix_profiles[1] :
          /\ p.time_granularity = Some("mixed")
          /\ Yielded(p.matrix_code, {"time"}, "time_granularity") = {"annual", "quarterly"}

\* a dataset whose two time options are of one granularity
C16_WitnessOne ==
    /\ pc = "done"
    /\ \E p \in matrix_profiles[1] :
          /\ p.time_granularity = Some("annual")
          /\ Cardinality(TuplesOfKind(p.matrix_code, {"time"})) = 2

\* C17: time_year_min and time_year_max of a profile are the minimum and
\* the maximum of the years parsed from the options of the dataset's time
\* dimensions, both null exactly when there is no such year, and otherwise
\* time_year_min <= time_year_max.
C17_YearRange ==
    pc = "done" =>
        \A p \in matrix_profiles[1] :
            LET Y == Yielded(p.matrix_code, {"time"}, "year")
            IN IF Y = {}
               THEN p.time_year_min = None /\ p.time_year_max = None
               ELSE /\ p.time_year_min = Some(SetMin(Y))
                    /\ p.time_year_max = Some(SetMax(Y))
                    /\ p.time_year_min[1] <= p.time_year_max[1]


\* the unit type that the option of tuple k yielded
UnitTypeAt(k) == seen[rows[k].nom_item_id].unit_type

\* C18: primary_unit_type of a profile is the first unit type other than
\* other observed, in input order, among the options of the dataset's unit
\* dimensions; other if only other was observed; null if no unit type was
\* observed. When non-null it is a member of unit_types, and it is other
\* only if unit_types holds nothing else.
C18_PrimaryUnitFirstObserved ==
    pc = "done" =>
        \A p \in matrix_profiles[1] :
            LET observed == {k \in TuplesOfKind(p.matrix_code, {"unit"}) : UnitTypeAt(k) # None}
                proper   == {k \in observed : UnitTypeAt(k) # Some("other")}
            IN /\ p.primary_unit_type =
                    (IF proper # {} THEN UnitTypeAt(SetMin(proper))
                     ELSE IF observed # {} THEN Some("other")
                     ELSE None)
               /\ p.primary_unit_type # None => p.primary_unit_type[1] \in p.unit_types
               /\ p.primary_unit_type = Some("other") => p.unit_types = {"other"}

\* the tuples of the input stream that belong to dataset m
TuplesOfMatrix(m) == {k \in 1..Len(rows) : rows[k].matrix_code = m}
\* of those, the tuples whose ParsedOption has parse_confidence >= 0.8
HighConfidence(m) ==
    {k \in TuplesOfMatrix(m) :
        \E o \in dimension_options_parsed[1] :
            o.nom_item_id = rows[k].nom_item_id /\ o.parse_confidence >= 80}

\* C19: parse_coverage of a profile is the number of the dataset's input
\* tuples whose ParsedOption has parse_confidence >= 0.8 divided by the
\* number of the dataset's input tuples, rounded to 3 decimals (at most half
\* a thousandth away from the quotient); it lies in [0, 1], and a profiled
\* dataset has at least one tuple, so the divisor is not zero.
C19_ParseCoverage ==
    pc = "done" =>
        \A p \in matrix_profiles[1] :
            LET n == Cardinality(TuplesOfMatrix(p.matrix_code))
                h == Cardinality(HighConfidence(p.matrix_code))
                d == 1000 * h - p.parse_coverage * n
            IN /\ n > 0
               /\ p.parse_coverage \in 0..1000
               /\ 2 * d <= n /\ -2 * d <= n

\* a dataset of three tuples of which two have a confident ParsedOption:
\* the quotient 2/3 is rounded up to 0.667
C19_Witness ==
    /\ pc = "done"
    /\ \E p \in matrix_profiles[1] :
          /\ Cardinality(TuplesOfMatrix(p.matrix_code)) = 3
          /\ Cardinality(HighConfidence(p.matrix_code)) = 2
          /\ p.parse_coverage = 667

\* a dataset none of whose tuples has a confident ParsedOption
C19_WitnessZero ==
    /\ pc = "done"
    /\ \E p \in matrix_profiles[1] :
          /\ HighConfidence(p.matrix_code) = {}
          /\ p.parse_coverage = 0

\* the kinds that have a presence flag, and the flag of each
FLAG_KINDS == {"time", "geo", "gender", "age", "residence"}
FlagOf(kind) ==
    CASE kind = "time" -> "has_time"
      [] kind = "geo" -> "has_geo"
      [] kind = "gender" -> "has_gender"
      [] kind = "age" -> "has_age"
      [] kind = "residence" -> "has_residence"

\* C20: each of has_time, has_geo, has_gender, has_age, has_residence of a
\* profile is true exactly when a dimension of that dataset is of that
\* detected kind, whatever its options parsed to and whatever kind their
\* ids were memoized under; dimensions of other datasets set no flag.
C20_PresenceFlags ==
    pc = "done" =>
        \A p \in matrix_profiles[1] :
            \A kind \in FLAG_KINDS :
                p[FlagOf(kind)] <=> (TuplesOfKind(p.matrix_code, {kind}) # {})

\* a dataset with a dimension of a flagged kind all of whose option ids were
\* memoized under another kind, next to a dimension of a second kind, while
\* another dataset has a dimension of a kind this one lacks
C20_Witness ==
    /\ pc = "done"
    /\ \E p, q \in matrix_profiles[1] :
       \E kind, other \in FLAG_KINDS :
          /\ p[FlagOf(kind)] /\ ~p[FlagOf(other)] /\ q[FlagOf(other)]
          /\ \A k \in TuplesOfKind(p.matrix_code, {kind}) :
                seen[rows[k].nom_item_id].dim_type # kind
          /\ p.dim_count = 2

\* the option ids of the run whose first tuple stands under a geo dimension
\* and whose label parses to geo_level unknown
UnknownGeoIds ==
    {nid \in IdsOf(rows) :
        /\ KindOf(rows[FirstTuple(rows, nid)].dim_label) = "geo"
        /\ Parsed("geo", rows[FirstTuple(rows, nid)].option_label).geo_level = Some("unknown")}
\* the normalized label of the first tuple of an option id
FirstNorm(nid) == Norm(rows[FirstTuple(rows, nid)].option_label)
\* the tuples under a geo dimension whose label parses to geo_level unknown
UnknownGeoTuples ==
    {k \in 1..Len(rows) :
        /\ KindOf(rows[k].dim_label) = "geo"
        /\ Parsed("geo", rows[k].option_label).geo_level = Some("unknown")}

\* C21 as stated: every label of a geo dimension that parses to unknown is
\* listed by the unknown-geo report with the number of input tuples in
\* which it occurred under a geo dimension.
C21_UnknownGeoPerTuple ==
    pc = "done" =>
        \A R \in ReportLines(unknown_geo, UNKNOWN_GEO_TOP) :
            \A k \in UnknownGeoTuples :
                \E line \in R :
                    /\ line.label = Norm(rows[k].option_label)
                    /\ line.count = Cardinality({j \in UnknownGeoTuples :
                                         Norm(rows[j].option_label) = Norm(rows[k].option_label)})

\* C21: at the end of a completed run the unknown-geo counter holds, for
\* each normalized label, the number of distinct option ids whose first
\* tuple stood under a geo dimension with a label of that normal form that
\* parsed to unknown, and no other label; the report lists the labels of
\* highest count, all of them when they are at most 20.
C21_UnknownGeoPerOption ==
    pc = "done" =>
        /\ DOMAIN unknown_geo = {FirstNorm(nid) : nid \in UnknownGeoIds}
        /\ \A l \in DOMAIN unknown_geo :
              unknown_geo[l] = Cardinality({nid \in UnknownGeoIds : FirstNorm(nid) = l})
        /\ \A R \in ReportLines(unknown_geo, UNKNOWN_GEO_TOP) :
              /\ Cardinality(R) <= UNKNOWN_GEO_TOP
              /\ \A line \in R : line.label \in DOMAIN unknown_geo
                                  /\ line.count = unknown_geo[line.label]
              /\ Cardinality(DOMAIN unknown_geo) <= UNKNOWN_GEO_TOP
                    => {line.label : line \in R} = DOMAIN unknown_geo

\* two option ids with one unknown label under a geo dimension: the label
\* is reported with count 2
C21_Witness ==
    /\ pc = "done"
    /\ Cardinality(UnknownGeoIds) = 2
    /\ \E R \in ReportLines(unknown_geo, UNKNOWN_GEO_TOP) : \E line \in R : line.count = 2

\* one option id with an unknown label in two tuples under geo dimensions
C21_WitnessShared ==
    /\ pc = "done"
    /\ Cardinality(UnknownGeoIds) = 1
    /\ Cardinality(UnknownGeoTuples) = 2
    /\ \E l \in DOMAIN unknown_geo : unknown_geo[l] = 1

GENDERS == {"male", "female", "unknown", "total", "other"}
\* whether the text holds one of the indicator words as a substring
HoldsAny(sn, words) ==
    \E w \in words : \E i \in 1..(Len(sn) - Len(w) + 1) : SubSeq(sn, i, i + Len(w) - 1) = w
\* the rules of the gender parser in their order: <<gender, confidence>>
GENDER_RULES == <<"male", "female", "unknown", "total", "other">>
GenderRule(sn, g) ==
    CASE g = "male" -> HoldsAny(sn, {"masculin", "barbati", "barbat", "baieti", "baiat"})
      [] g = "female" -> HoldsAny(sn, {"feminin", "femei", "femeie", "fete", "fata"})
      [] g = "unknown" -> HoldsAny(sn, {"necunoscut"})
      [] g = "total" -> sn \in {"total", "ambele sexe"}
      [] g = "other" -> TRUE

\* C22: parse_gender applies the first matching rule in the order male
\* indicator, female indicator, necunoscut, exact total / ambele sexe, else
\* other at confidence 0.5: a label with a male and a female indicator is
\* male, the first four outcomes have confidence 1.0, and gender is one of
\* male, female, unknown, total, other.
C22_GenderFirstRule ==
    (probe # None /\ probe[1].dim_type = "gender") =>
        LET r  == probe[1].result
            sn == ProbedText(probe[1].option_label)
            k  == SetMin({j \in 1..5 : GenderRule(sn, GENDER_RULES[j])})
        IN /\ r.gender = Some(GENDER_RULES[k])
           /\ r.parse_confidence = IF k = 5 THEN 50 ELSE 100
           /\ r.gender[1] \in GENDERS
           /\ (GenderRule(sn, "male") /\ GenderRule(sn, "female")) => r.gender = Some("male")

\* a label with a male and a female indicator, the female one first
C22_Witness ==
    /\ probe # None /\ probe[1].dim_type = "gender"
    /\ probe[1].option_label = Some("Femei cu sex necunoscut")
    /\ probe[1].result.gender = Some("female")

\* a label with both indicators, parsed as male
C22_WitnessBoth ==
    /\ probe # None /\ probe[1].dim_type = "gender"
    /\ probe[1].option_label = Some("Baieti si fete")
    /\ probe[1].result.gender = Some("male")
    /\ probe[1].result.parse_confidence = 100

\* the total, written with blanks around it and in capitals
C22_WitnessTotal ==
    /\ probe # None /\ probe[1].dim_type = "gender"
    /\ probe[1].option_label = Some("  TOTAL ")
    /\ probe[1].result.gender = Some("total")

\* a label that no rule takes
C22_WitnessOther ==
    /\ probe # None /\ probe[1].dim_type = "gender"
    /\ probe[1].option_label = Some("Total general")
    /\ probe[1].result.gender = Some("other")
    /\ probe[1].result.parse_confidence = 50

CURRENCIES == {"RON", "EUR", "USD", "SDR"}
\* the text without the blanks at its ends
Trimmed(t) ==
    LET inked == {i \in 1..Len(t) : SubSeq(t, i, i) # " "}
    IN IF inked = {} THEN "" ELSE SubSeq(t, SetMin(inked), SetMax(inked))
\* the text without a leading um:, trimmed
WithoutUm(sn) ==
    IF Len(sn) >= 3 /\ SubSeq(sn, 1, 3) = "um:"
    THEN Trimmed(SubSeq(sn, 4, Len(sn)))
    ELSE Trimmed(sn)

\* C23: parse_unit looks up the normalized label, first without a leading
\* um: and then as written, in the unit lexicon by exact match; a hit gives
\* the entry's unit_type, unit_scale and currency at confidence 1.0, so a
\* lexicon label with UM: before it parses as the label itself; a miss
\* gives other, scale 1, no currency at 0.1; the currency is RON, EUR, USD,
\* SDR or null.
C23_UnitLookup ==
    (probe # None /\ probe[1].dim_type = "unit") =>
        LET r   == probe[1].result
            sn  == ProbedText(probe[1].option_label)
            key == IF WithoutUm(sn) \in DOMAIN UNIT_MAP THEN Some(WithoutUm(sn))
                   ELSE IF sn \in DOMAIN UNIT_MAP THEN Some(sn)
                   ELSE None
        IN /\ key # None =>
                /\ r.unit_type = Some(UNIT_MAP[key[1]][1])
                /\ r.unit_scale = Some(UNIT_MAP[key[1]][2])
                /\ r.currency = UNIT_MAP[key[1]][3]
                /\ r.parse_confidence = 100
           /\ key = None =>
                /\ r.unit_type = Some("other") /\ r.unit_scale = Some(1)
                /\ r.currency = None /\ r.parse_confidence = 10
           /\ r.currency = None \/ r.currency[1] \in CURRENCIES
           /\ \A l \in PROBE_LABELS :
                (sn = "um: " \o l /\ Lower(l) \in DOMAIN UNIT_MAP) =>
                    /\ r.unit_type = Some(UNIT_MAP[Lower(l)][1])
                    /\ r.unit_scale = Some(UNIT_MAP[Lower(l)][2])
                    /\ r.currency = UNIT_MAP[Lower(l)][3]

\* a lexicon label with UM: before it
C23_Witness ==
    /\ probe # None /\ probe[1].dim_type = "unit"
    /\ probe[1].option_label = Some("UM: Mii dolari SUA")
    /\ probe[1].result.unit_type = Some("currency")
    /\ probe[1].result.unit_scale = Some(1000)
    /\ probe[1].result.currency = Some("USD")
    /\ probe[1].result.parse_confidence = 100

\* a label the lexicon does not hold
C23_WitnessMiss ==
    /\ probe # None /\ probe[1].dim_type = "unit"
    /\ probe[1].option_label = Some("Lei noi")
    /\ probe[1].result.unit_type = Some("other")
    /\ probe[1].result.parse_confidence = 10

\* the characters of a normal form: ASCII, none of them a capital
IsNormalChar(c) ==
    /\ \A i \in 1..Len(UPPER) : SubSeq(UPPER, i, i) # c
    /\ \A i \in 1..Len(DIACRITIC) : SubSeq(DIACRITIC, i, i) # c
    /\ \A i \in 1..Len(NONASCII_UPPER) : SubSeq(NONASCII_UPPER, i, i) # c
    /\ \A i \in 1..Len(DROPPED) : SubSeq(DROPPED, i, i) # c

\* C24: the normalizer returns for every input, the empty string and None
\* included, without raising; empty and None input give the empty string,
\* and any other text gives its trimmed, lower-cased, diacritics-stripped
\* form.
C24_NormTotal ==
    normed # None =>
        /\ ~normed[1].raised
        /\ normed[1].s \in {None, Some("")} => normed[1].value = Some("")
        /\ normed[1].value # None =>
              LET v == normed[1].value[1]
              IN /\ v = Trimmed(v)
                 /\ \A i \in 1..Len(v) : IsNormalChar(SubSeq(v, i, i))

\* the prefix, of the three the locality rule names, that the label starts
\* with before a name, no earlier geo rule matching: a set of at most one
LocalityPrefix(s) ==
    {pre \in {"municipiul", "oras", "orasul"} :
        PrefixThenWord(norm(s), 1, pre) /\ GeoRule(s) = 5}

\* C25: a label whose normalized form starts with municipiul, oras or
\* orasul followed by a name, and that matches no earlier geo rule
\* (national, macroregion, region, Bucharest), is parsed by parse_geo as a
\* locality at confidence 0.9, for each of the three prefixes.
C25_LocalityPrefixes ==
    (probe # None /\ probe[1].dim_type = "geo") =>
        LET s == Strip(IF probe[1].option_label = None THEN "" ELSE probe[1].option_label[1])
        IN LocalityPrefix(s) # {} =>
              /\ probe[1].result.geo_level = Some("locality")
              /\ probe[1].result.parse_confidence = 90

\* a name with the whole word ani that also mentions varsta
AniWithVarsta(sn) == HasWholeWord(sn, "ani") /\ Contains(sn, "varsta")
\* a name with a time keyword other than the word ani
OtherTimeKeyword(sn) == (\E k \in TIME_KEYWORDS : Contains(sn, k)) \/ sn \in TIME_NAMES \ {"ani"}
\* the kind the rules after the time rules give to a name that mentions varsta
LaterKind(sn) ==
    IF (HasWholeWord(sn, "sexe") /\ ~Contains(sn, "rezidenta")) \/ sn = "sex" THEN "gender"
    ELSE "age"

\* C26 as stated: a name with the whole word ani that mentions varsta and
\* holds no other time keyword is gender if the gender rule applies and
\* otherwise age; the name ani is time.
C26_AniWithVarstaLaterRules ==
    detected # None =>
        LET sn == norm(detected[1].dim_label)
        IN /\ (AniWithVarsta(sn) /\ ~OtherTimeKeyword(sn)) => detected[1].kind = LaterKind(sn)
           /\ sn = "ani" => detected[1].kind = "time"

\* C26, amended: a name with the whole word ani that mentions varsta is not
\* classified as time on account of ani: unless it holds another time
\* keyword it is never time, and unless it also starts with the unit
\* prefix (um:, um and a space) it is gender if the gender rule applies
\* and otherwise age; a name that is ani alone is time.
C26_AniWithVarsta ==
    detected # None =>
        LET sn == norm(detected[1].dim_label)
            um == sn = "um" \/ StartsWith(sn, "um:") \/ StartsWith(sn, "um ")
        IN /\ (AniWithVarsta(sn) /\ ~OtherTimeKeyword(sn)) =>
                /\ detected[1].kind # "time"
                /\ detected[1].kind = IF um THEN "unit" ELSE LaterKind(sn)
           /\ sn = "ani" => detected[1].kind = "time"

\* the name Grupe de varsta si ani, classified as age
C26_Witness ==
    /\ detected # None
    /\ norm(detected[1].dim_label) = "grupe de varsta si ani"
    /\ detected[1].kind = "age"

\* a name with ani, varsta and sexe, classified as gender
C26_WitnessGender ==
    /\ detected # None
    /\ detected[1].dim_label = "Sexe, ani de v}rst{"
    /\ detected[1].kind = "gender"

\* a name with ani and varsta after the unit prefix, classified as unit
C26_WitnessUnit ==
    /\ detected # None
    /\ detected[1].dim_label = "UM: ani de v}rst{"
    /\ detected[1].kind = "unit"

\* the name Ani
C26_WitnessAni ==
    /\ detected # None
    /\ detected[1].dim_label = "Ani"
    /\ detected[1].kind = "time"

\* the fields that a row of each dim_type may hold
FieldsOf(kind) ==
    CASE kind = "time" -> {"year", "quarter", "month", "semester", "time_granularity"}
      [] kind = "geo" -> {"geo_level", "geo_name_clean", "siruta_code"}
      [] kind = "residence" -> {"geo_level", "geo_name_clean"}
      [] kind = "gender" -> {"gender"}
      [] kind = "age" -> {"age_min", "age_max"}
      [] kind = "unit" -> {"unit_type", "unit_scale", "currency"}
      [] OTHER -> {}
\* the part of a year a time row names, and the granularity that goes with it
SUBYEAR_FIELDS == <<"quarter", "month", "semester">>
SUBYEAR_GRANULARITY == <<"quarterly", "monthly", "semester">>
\* a record holds only the fields of its dim_type, and a time record at
\* most one part of the year, with its granularity
OwnFieldsOnly(p) ==
    /\ \A f \in DOMAIN NO_FIELDS : p[f] # None => f \in FieldsOf(p.dim_type)
    /\ Cardinality({i \in 1..3 : p[SUBYEAR_FIELDS[i]] # None}) <= 1
    /\ \A i \in 1..3 :
          p[SUBYEAR_FIELDS[i]] # None => p.time_granularity = Some(SUBYEAR_GRANULARITY[i])

C27_ParsedOwnFieldsOnly ==
    probe # None => OwnFieldsOnly(probe[1].result)

\* a <= b on Python integers, either of them possibly beyond 32 bits
\* (such a one is positive)
IntLeq(a, b) ==
    IF IsInt(a) /\ IsInt(b) THEN a[1] <= b[1]
    ELSE IF IsInt(a) THEN TRUE
    ELSE IF IsInt(b) THEN FALSE
    ELSE Len(a[1]) < Len(b[1]) \/ (Len(a[1]) = Len(b[1]) /\ DigitsLeq(a[1], b[1]))

\* C28: in every record parse_age returns, age_min and age_max are both
\* null or both non-null, and when non-null 0 <= age_min <= age_max.
C28_AgeBounds ==
    (probe # None /\ probe[1].dim_type = "age") =>
        LET r == probe[1].result
        IN /\ r.age_min = None <=> r.age_max = None
           /\ r.age_min # None =>
                /\ IntLeq(Some(0), r.age_min)
                /\ IntLeq(r.age_min, r.age_max)

\* C29: when the input query returns no row, both output tables have been
\* dropped and recreated before the run exits with code 1: after such a run
\* both tables exist and are empty, whatever they held before, and nothing
\* was parsed.
C29_EmptyTablesAfterNoRows ==
    pc = "exit" =>
        /\ rows = <<>> /\ exit_code = Some(1)
        /\ dimension_options_parsed # None /\ matrix_profiles # None
        /\ dimension_options_parsed[1] = {} /\ matrix_profiles[1] = {}
        /\ pos = 0 /\ seen = <<>>

\* a run restricted with --matrix to a dataset without rows, after a
\* completed run that had filled both tables
C29_Witness ==
    /\ pc = "exit" /\ matrix # None /\ previous # None
    /\ previous[1].dimension_options_parsed[1] # {}
    /\ previous[1].matrix_profiles[1] # {}
    /\ dimension_options_parsed = Some({}) /\ matrix_profiles = Some({})

\* a run over a database without rows, where no table existed before
C29_WitnessFirstRun ==
    /\ pc = "exit" /\ matrix = None /\ previous = None /\ db = {}
    /\ dimension_options_parsed = Some({}) /\ matrix_profiles = Some({})

\* the INTEGER columns of the ParsedOption table that the parsers fill
INTEGER_COLUMNS == {"year", "quarter", "month", "semester", "siruta_code",
                    "age_min", "age_max", "unit_scale"}

\* C30: every integer a run inserts into the INTEGER columns of the
\* ParsedOption table (year, quarter, month, semester, siruta_code,
\* age_min, age_max, unit_scale) lies within -2^31 .. 2^31-1, so the bulk
\* insert does not fail on a value out of range.
C30_IntegerColumnsFit ==
    /\ \A nid \in DOMAIN seen : \A f \in INTEGER_COLUMNS :
          seen[nid][f] # None =>
              IsInt(seen[nid][f]) /\ seen[nid][f][1] \in (-INT32_MAX - 1)..INT32_MAX
    /\ pc # "crashed"

====
